---- MODULE Spec2Model ----
(***************************************************************************)
(* Receipt extraction pipeline of RetailEdge-receipt-tracker.              *)
(*                                                                         *)
(*   src/inngest/agent.ts      agentNetwork (defaultRouter),               *)
(*                             extractJsonFromCodeBlock, extractAndSavePDF *)
(*                             (mapGeminiToExpectedFormat,                 *)
(*                              normalizeReceiptData)                      *)
(*   src/convex/receipts.ts    the receipts table and its mutations        *)
(*   src/actions/getFileDownloadUrl.ts   uploadPDF, getFileDownloadUrl     *)
(*                                                                         *)
(* JavaScript strings are sequences of one-character strings, a number is  *)
(* the integer count of its hundredths (12.5 is 1250), and a JavaScript    *)
(* value is a record [t, s, n] tagged with its typeof: "str" (s),          *)
(* "num" (n) or "undef".                                                   *)
(***************************************************************************)
EXTENDS Integers, Sequences, FiniteSets, TLC

(***************************************************************************)
(* Bounds of the model.                                                    *)
(***************************************************************************)
MaxJobs == 2          \* invocations of extractAndSavePDF
MaxReceipts == 1      \* receipt ids the store ever issues

Jobs == 1..MaxJobs
ReceiptIds == 1..MaxReceipts

(***************************************************************************)
(* JavaScript values.                                                      *)
(***************************************************************************)
\* a number is held in hundredths: the numbers of the model have at most
\* two decimals
Unit == 100

Str(s) == [t |-> "str", s |-> s, n |-> 0]
Num(n) == [t |-> "num", s |-> <<>>, n |-> n * Unit]
Undef == [t |-> "undef", s |-> <<>>, n |-> 0]

\* ToBoolean: undefined, "" and 0 are falsy
Truthy(v) ==
    CASE v.t = "str" -> v.s # <<>>
      [] v.t = "num" -> v.n # 0
      [] OTHER -> FALSE

\* a || b with its operands exchanged: the later candidate wins
OrElseLast(a, b) == IF Truthy(b) THEN b ELSE a

\* a || b
OrElse(a, b) == IF Truthy(a) THEN a ELSE b

Digits == <<"0", "1", "2", "3", "4", "5", "6", "7", "8", "9">>

RECURSIVE NatToString(_)
NatToString(n) ==
    IF n < 10 THEN <<Digits[n + 1]>>
    ELSE NatToString(n \div 10) \o <<Digits[(n % 10) + 1]>>

\* the decimals of a number of h hundredths, without trailing zeros
FractionToString(h) ==
    IF h = 0 THEN <<>>
    ELSE IF h % 10 = 0 THEN <<".", Digits[(h \div 10) + 1]>>
    ELSE <<".", Digits[(h \div 10) + 1], Digits[(h % 10) + 1]>>

\* Number.prototype.toString
NumberToString(n) ==
    LET a == IF n < 0 THEN 0 - n ELSE n
    IN (IF n < 0 THEN <<"-">> ELSE <<>>)
       \o NatToString(a \div Unit) \o FractionToString(a % Unit)

\* String(v) / v.toString() of a string or a number
JSString(v) ==
    CASE v.t = "str" -> v.s
      [] v.t = "num" -> NumberToString(v.n)
      [] OTHER -> <<"u", "n", "d", "e", "f", "i", "n", "e", "d">>

IsDigit(c) == \E d \in 1..10 : Digits[d] = c
DigitValue(c) == (CHOOSE d \in 1..10 : Digits[d] = c) - 1

RECURSIVE DigitsValue(_)
DigitsValue(s) ==
    IF s = <<>> THEN 0
    ELSE 10 * DigitsValue(SubSeq(s, 1, Len(s) - 1)) + DigitValue(s[Len(s)])

\* \s
IsSpace(c) == c \in {" ", "\n", "\t", "\r"}

\* String.prototype.trim
Trim(text) ==
    IF \A i \in 1..Len(text) : IsSpace(text[i]) THEN <<>>
    ELSE LET a == CHOOSE i \in 1..Len(text) :
                      ~IsSpace(text[i]) /\ \A r \in 1..(i - 1) : IsSpace(text[r])
             b == CHOOSE i \in 1..Len(text) :
                      ~IsSpace(text[i]) /\ \A r \in (i + 1)..Len(text) : IsSpace(text[r])
         IN SubSeq(text, a, b)

\* the hundredths of the decimals d of a numeric text (one or two digits)
HundredthsOf(d) ==
    IF d = <<>> THEN 0
    ELSE IF Len(d) = 1 THEN 10 * DigitValue(d[1])
    ELSE 10 * DigitValue(d[1]) + DigitValue(d[2])

\* an unsigned decimal literal: digits, digits with a point, or a point and digits
UnsignedNumber(s) ==
    LET points == {i \in 1..Len(s) : s[i] = "."}
        dot == IF points = {} THEN Len(s) + 1 ELSE CHOOSE i \in points : TRUE
        whole == SubSeq(s, 1, dot - 1)
        decimals == SubSeq(s, dot + 1, Len(s))
    IN IF /\ Cardinality(points) <= 1
          /\ \A i \in 1..Len(s) : s[i] = "." \/ IsDigit(s[i])
          /\ Len(whole) + Len(decimals) > 0
       THEN [nan |-> FALSE, n |-> DigitsValue(whole) * Unit + HundredthsOf(decimals)]
       ELSE [nan |-> TRUE, n |-> 0]

\* Number(text): white space around the text is ignored, the empty text is 0,
\* a decimal literal with an optional sign is its value, any other text NaN
StringToNumber(text) ==
    LET s == Trim(text)
        u == UnsignedNumber(IF s # <<>> /\ s[1] \in {"-", "+"} THEN Tail(s) ELSE s)
    IN IF s = <<>> THEN [nan |-> FALSE, n |-> 0]
       ELSE IF s[1] = "-" THEN [nan |-> u.nan, n |-> 0 - u.n]
       ELSE u

\* Number(v): [nan, n]; undefined is NaN
JSNumber(v) ==
    CASE v.t = "num" -> [nan |-> FALSE, n |-> v.n]
      [] v.t = "str" -> StringToNumber(v.s)
      [] OTHER -> [nan |-> TRUE, n |-> 0]

(***************************************************************************)
(* The vendor-shaped record: the object the model returns, with the keys   *)
(* mapGeminiToExpectedFormat reads.  A missing key is Undef; a missing     *)
(* issuer, issued_to or note is the object with every key missing, and a   *)
(* missing line_items is the empty array (geminiData?.x || {}, || []).       *)
(***************************************************************************)
NoLineItem ==
    [description |-> Undef, name |-> Undef, qty |-> Undef, quantity |-> Undef,
     price |-> Undef, unit_price |-> Undef, subtotal |-> Undef, total |-> Undef,
     amount |-> Undef]

EmptyVendor ==
    [issuer |-> [name |-> Undef, address |-> Undef],
     issued_to |-> [name |-> Undef, address |-> Undef],
     merchant_name |-> Undef, merchant_address |-> Undef,
     merchant_contact |-> Undef, merchant_phone |-> Undef,
     date_issued |-> Undef, transaction_date |-> Undef, date |-> Undef,
     grand_total |-> Undef, total_amount |-> Undef, amount |-> Undef,
     currency |-> Undef,
     note |-> [bank_name |-> Undef], payment_method |-> Undef,
     line_items |-> <<>>]

(***************************************************************************)
(* The fixed text of the receipt summary (agent.ts 155-197).               *)
(***************************************************************************)
TxtFrom ==
    <<"T", "h", "i", "s", " ", "r", "e", "c", "e", "i", "p", "t", " ",
    "i", "s", " ", "f", "r", "o", "m", " ">>

TxtUnknownMerchant ==
    <<"U", "n", "k", "n", "o", "w", "n", " ", "M", "e", "r", "c", "h",
    "a", "n", "t">>

TxtLocatedAt ==
    <<" ", "l", "o", "c", "a", "t", "e", "d", " ", "a", "t", " ">>

TxtTransactionOn ==
    <<" ", "f", "o", "r", " ", "a", " ", "t", "r", "a", "n", "s", "a",
    "c", "t", "i", "o", "n", " ", "o", "n", " ">>

TxtUnknownDate ==
    <<"U", "n", "k", "n", "o", "w", "n", " ", "D", "a", "t", "e">>

TxtTotaling ==
    <<" ", "t", "o", "t", "a", "l", "i", "n", "g", " ">>

TxtIncluded ==
    <<" ", "T", "h", "e", " ", "p", "u", "r", "c", "h", "a", "s", "e",
    " ", "i", "n", "c", "l", "u", "d", "e", "d", " ">>

TxtItem ==
    <<" ", "i", "t", "e", "m">>

TxtIncluding ==
    <<" ", "i", "n", "c", "l", "u", "d", "i", "n", "g", " ">>

TxtAnd ==
    <<" ", "a", "n", "d", " ">>

TxtOtherItem ==
    <<" ", "o", "t", "h", "e", "r", " ", "i", "t", "e", "m">>

TxtHighValue ==
    <<"h", "i", "g", "h", "-", "v", "a", "l", "u", "e", " ", "p", "u",
    "r", "c", "h", "a", "s", "e">>

TxtBulk ==
    <<"b", "u", "l", "k", " ", "s", "h", "o", "p", "p", "i", "n", "g">>

TxtPaidVia ==
    <<"p", "a", "i", "d", " ", "v", "i", "a", " ">>

TxtThisWasA ==
    <<" ", "T", "h", "i", "s", " ", "w", "a", "s", " ", "a", " ">>

TxtTransaction ==
    <<" ", "t", "r", "a", "n", "s", "a", "c", "t", "i", "o", "n", ".">>

TxtProcessed ==
    <<" ", "T", "h", "e", " ", "r", "e", "c", "e", "i", "p", "t", " ",
    "h", "a", "s", " ", "b", "e", "e", "n", " ", "a", "u", "t", "o",
    "m", "a", "t", "i", "c", "a", "l", "l", "y", " ", "p", "r", "o",
    "c", "e", "s", "s", "e", "d", " ", "a", "n", "d", " ", "t", "h",
    "e", " ", "d", "a", "t", "a", " ", "e", "x", "t", "r", "a", "c",
    "t", "e", "d", " ", "f", "o", "r", " ", "y", "o", "u", "r", " ",
    "r", "e", "c", "o", "r", "d", "s", ".">>


(***************************************************************************)
(* mapGeminiToExpectedFormat (agent.ts 141-214).                           *)
(***************************************************************************)
\* arr.join(sep) of an array of values
RECURSIVE Join(_, _)
Join(arr, sep) ==
    IF arr = <<>> THEN <<>>
    ELSE IF Len(arr) = 1 THEN JSString(arr[1])
    ELSE JSString(arr[1]) \o sep \o Join(Tail(arr), sep)

\* lineItems.map(item => item?.description || item?.name).filter(Boolean)
RECURSIVE ItemNames(_)
ItemNames(lineItems) ==
    IF lineItems = <<>> THEN <<>>
    ELSE LET nm == OrElse(lineItems[1].description, lineItems[1].name)
         IN (IF Truthy(nm) THEN <<nm>> ELSE <<>>) \o ItemNames(Tail(lineItems))

\* a comparison that also holds of the limit itself
AtLeast(v, k) == LET x == JSNumber(v) IN ~x.nan /\ x.n >= k * Unit

\* totalAmount > 100: a string operand is converted with Number, NaN compares false
GreaterThan(v, k) == LET x == JSNumber(v) IN ~x.nan /\ x.n > k * Unit

\* the plural s of item${k > 1 ? 's' : ''}
Plural(k) == IF k > 1 THEN <<"s">> ELSE <<>>

\* the item clause that joins the names of all the items where agent.ts 172
\* takes those of lineItems.slice(0, 3)
SummaryItemsAllNames(lineItems) ==
    LET itemCount == Len(lineItems)
        itemNames == ItemNames(lineItems)
    IN IF itemCount > 0
       THEN TxtIncluded \o NatToString(itemCount) \o TxtItem \o Plural(itemCount)
            \o (IF Len(itemNames) > 0
                THEN TxtIncluding \o Join(itemNames, <<",", " ">>)
                     \o (IF itemCount > 3
                         THEN TxtAnd \o NatToString(itemCount - 3)
                              \o TxtOtherItem \o Plural(itemCount - 3)
                         ELSE <<>>)
                ELSE <<>>)
            \o <<".">>
       ELSE <<>>

SummaryItems(lineItems) ==
    LET itemCount == Len(lineItems)
        itemNames == ItemNames(lineItems)
        firstThreeItems == ItemNames(SubSeq(lineItems, 1, 3))
    IN IF itemCount > 0
       THEN TxtIncluded \o NatToString(itemCount) \o TxtItem \o Plural(itemCount)
            \o (IF itemCount <= 3
                THEN (IF Len(itemNames) > 0
                      THEN TxtIncluding \o Join(itemNames, <<",", " ">>)
                      ELSE <<>>)
                ELSE (IF Len(firstThreeItems) > 0
                      THEN TxtIncluding \o Join(firstThreeItems, <<",", " ">>)
                           \o TxtAnd \o NatToString(itemCount - 3)
                           \o TxtOtherItem \o Plural(itemCount - 3)
                      ELSE <<>>))
            \o <<".">>
       ELSE <<>>

Insights(geminiData, totalAmount, itemCount) ==
    (IF GreaterThan(totalAmount, 100) THEN <<Str(TxtHighValue)>> ELSE <<>>)
    \o (IF itemCount > 5 THEN <<Str(TxtBulk)>> ELSE <<>>)
    \o (IF Truthy(OrElse(geminiData.note.bank_name, geminiData.payment_method))
        THEN <<Str(TxtPaidVia
                   \o JSString(OrElse(geminiData.note.bank_name,
                                      geminiData.payment_method)))>>
        ELSE <<>>)

Summary(geminiData) ==
    LET issuer == geminiData.issuer
        issuedTo == geminiData.issued_to
        lineItems == geminiData.line_items
        merchantName == OrElse(OrElse(OrElse(issuer.name, geminiData.merchant_name),
                                      issuedTo.name), Str(TxtUnknownMerchant))
        transactionDate == OrElse(OrElse(OrElse(geminiData.date_issued,
                                                geminiData.transaction_date),
                                         geminiData.date), Str(TxtUnknownDate))
        totalAmount == OrElse(OrElse(OrElse(geminiData.grand_total,
                                            geminiData.total_amount),
                                     geminiData.amount), Num(0))
        currency == OrElse(geminiData.currency, Str(<<"$">>))
        address == OrElse(OrElse(geminiData.merchant_address, issuer.address),
                          issuedTo.address)
        insights == Insights(geminiData, totalAmount, Len(lineItems))
    IN TxtFrom \o JSString(merchantName)
       \o (IF Truthy(address) THEN TxtLocatedAt \o JSString(address) ELSE <<>>)
       \o TxtTransactionOn \o JSString(transactionDate)
       \o TxtTotaling \o JSString(currency) \o JSString(totalAmount) \o <<".">>
       \o SummaryItems(lineItems)
       \o (IF Len(insights) > 0
           THEN TxtThisWasA \o Join(insights, TxtAnd) \o TxtTransaction
           ELSE <<>>)
       \o TxtProcessed

\* a mapping of the items whose quantity defaults to 0
MapLineItemNoQuantity(item) ==
    [name |-> OrElse(OrElse(item.description, item.name), Str(<<>>)),
     quantity |-> OrElse(OrElse(item.qty, item.quantity), Num(0)),
     unitPrice |-> OrElse(OrElse(item.price, item.unit_price), Num(0)),
     totalPrice |-> OrElse(OrElse(OrElse(item.subtotal, item.total), item.amount),
                           Num(0))]

\* one element of the mapped items (agent.ts 207-212)
MapLineItem(item) ==
    [name |-> OrElse(OrElse(item.description, item.name), Str(<<>>)),
     quantity |-> OrElse(OrElse(item.qty, item.quantity), Num(1)),
     unitPrice |-> OrElse(OrElse(item.price, item.unit_price), Num(0)),
     totalPrice |-> OrElse(OrElse(OrElse(item.subtotal, item.total), item.amount),
                           Num(0))]

\* the mapper with the defaults of the summary (agent.ts 148-149) in the
\* returned record
mapGeminiSummaryDefaults(geminiData) ==
    LET issuer == geminiData.issuer
        issuedTo == geminiData.issued_to
        lineItems == geminiData.line_items
    IN [merchantName |-> OrElse(OrElse(OrElse(issuer.name, geminiData.merchant_name),
                                       issuedTo.name), Str(TxtUnknownMerchant)),
        merchantAddress |-> OrElse(OrElse(OrElse(geminiData.merchant_address,
                                                 issuer.address),
                                          issuedTo.address), Str(<<>>)),
        merchantContact |-> OrElse(OrElse(geminiData.merchant_contact,
                                          geminiData.merchant_phone), Str(<<>>)),
        transactionDate |-> OrElse(OrElse(OrElse(geminiData.date_issued,
                                                 geminiData.transaction_date),
                                          geminiData.date), Str(TxtUnknownDate)),
        transactionAmount |-> Str(JSString(OrElse(OrElse(OrElse(geminiData.grand_total,
                                                                geminiData.total_amount),
                                                         geminiData.amount), Num(0)))),
        currency |-> OrElse(geminiData.currency, Str(<<"$">>)),
        receiptSummary |-> Str(Summary(geminiData)),
        items |-> [i \in 1..Len(lineItems) |-> MapLineItem(lineItems[i])]]

mapGeminiToExpectedFormat(geminiData) ==
    LET issuer == geminiData.issuer
        issuedTo == geminiData.issued_to
        lineItems == geminiData.line_items
    IN [merchantName |-> OrElse(OrElse(OrElse(issuer.name, geminiData.merchant_name),
                                       issuedTo.name), Str(<<>>)),
        merchantAddress |-> OrElse(OrElse(OrElse(geminiData.merchant_address,
                                                 issuer.address),
                                          issuedTo.address), Str(<<>>)),
        merchantContact |-> OrElse(OrElse(geminiData.merchant_contact,
                                          geminiData.merchant_phone), Str(<<>>)),
        transactionDate |-> OrElse(OrElse(OrElse(geminiData.date_issued,
                                                 geminiData.transaction_date),
                                          geminiData.date), Str(<<>>)),
        transactionAmount |-> Str(JSString(OrElse(OrElse(OrElse(geminiData.grand_total,
                                                                geminiData.total_amount),
                                                         geminiData.amount), Num(0)))),
        currency |-> OrElse(geminiData.currency, Str(<<"$">>)),
        receiptSummary |-> Str(Summary(geminiData)),
        items |-> [i \in 1..Len(lineItems) |-> MapLineItem(lineItems[i])]]

(***************************************************************************)
(* normalizeReceiptData (agent.ts 220-276).  The result is                 *)
(* [ok |-> TRUE, value |-> normalized], or [ok |-> FALSE] with the value   *)
(* built so far when the function throws.                                  *)
(***************************************************************************)
\* toString: typeof v === 'string' ? v : (v == null ? '' : String(v))
toString(v) ==
    CASE v.t = "str" -> v.s
      [] v.t = "undef" -> <<>>
      [] OTHER -> JSString(v)

\* toNumber with parseInt in the place of Number: the digits that start the
\* text, whatever follows them
toNumberParseInt(v) ==
    LET s == Trim(JSString(v))
        neg == s # <<>> /\ s[1] = "-"
        body == IF s # <<>> /\ s[1] \in {"-", "+"} THEN Tail(s) ELSE s
        k == CHOOSE x \in 0..Len(body) :
                 /\ \A i \in 1..x : IsDigit(body[i])
                 /\ x = Len(body) \/ ~IsDigit(body[x + 1])
        n == DigitsValue(SubSeq(body, 1, k)) * Unit
    IN IF neg THEN 0 - n ELSE n

\* toNumber: Number(v), NaN becomes 0
toNumber(v) == LET x == JSNumber(v) IN IF x.nan THEN 0 ELSE x.n

CoerceItem(item) ==
    [name |-> toString(item.name),
     quantity |-> toNumber(item.quantity),
     unitPrice |-> toNumber(item.unitPrice),
     totalPrice |-> toNumber(item.totalPrice)]

\* a filter that asks for a name only
KeepItemNamed(item) == item.name # <<>>

\* item.name || item.quantity || item.unitPrice || item.totalPrice
KeepItem(item) ==
    \/ item.name # <<>>
    \/ item.quantity # 0
    \/ item.unitPrice # 0
    \/ item.totalPrice # 0

RECURSIVE FilterItems(_)
FilterItems(arr) ==
    IF arr = <<>> THEN <<>>
    ELSE (IF KeepItem(arr[1]) THEN <<arr[1]>> ELSE <<>>) \o FilterItems(Tail(arr))

\* the argument of toItems: an array of items, or a value that is no array
Array(elems) == [array |-> TRUE, elems |-> elems]
NotArray == [array |-> FALSE, elems |-> <<>>]

toItems(arr) ==
    IF ~arr.array THEN <<>>
    ELSE FilterItems([i \in 1..Len(arr.elems) |-> CoerceItem(arr.elems[i])])

\* requiredFields.every(f => !normalized[f] || (array and length 0))
allEmpty(normalized) ==
    /\ normalized.fileDisplayName = <<>>
    /\ normalized.merchantName = <<>>
    /\ normalized.merchantAddress = <<>>
    /\ normalized.merchantContact = <<>>
    /\ normalized.transactionDate = <<>>
    /\ normalized.transactionAmount = <<>>
    /\ normalized.currency = <<>>
    /\ normalized.items = <<>>

\* normalizeReceiptData with rawExtractedData taken from the mapped record
\* it is given instead of the original data
normalizeRawOfMapped(data, receiptId, fileDisplayName, rawText) ==
    LET normalized ==
            [fileDisplayName |-> fileDisplayName,
             receiptId |-> receiptId,
             merchantName |-> toString(data.merchantName),
             merchantAddress |-> toString(data.merchantAddress),
             merchantContact |-> toString(data.merchantContact),
             transactionDate |-> toString(data.transactionDate),
             transactionAmount |-> toString(data.transactionAmount),
             receiptSummary |-> toString(data.receiptSummary),
             currency |-> toString(data.currency),
             items |-> toItems(Array(data.items)),
             rawExtractedData |->
                 <<"{", "\"", "m", "e", "r", "c", "h", "a", "n", "t", "N", "a", "m",
                   "e", "\"", ":", "\"">> \o toString(data.merchantName)
                 \o <<"\"", ",", "\"", "t", "r", "a", "n", "s", "a", "c", "t", "i",
                      "o", "n", "A", "m", "o", "u", "n", "t", "\"", ":", "\"">>
                 \o toString(data.transactionAmount) \o <<"\"", "}">>]
    IN [ok |-> ~allEmpty(normalized), value |-> normalized]

normalizeReceiptData(data, receiptId, fileDisplayName, rawText) ==
    LET normalized ==
            [fileDisplayName |-> fileDisplayName,
             receiptId |-> receiptId,
             merchantName |-> toString(data.merchantName),
             merchantAddress |-> toString(data.merchantAddress),
             merchantContact |-> toString(data.merchantContact),
             transactionDate |-> toString(data.transactionDate),
             transactionAmount |-> toString(data.transactionAmount),
             receiptSummary |-> toString(data.receiptSummary),
             currency |-> toString(data.currency),
             items |-> toItems(Array(data.items)),
             rawExtractedData |-> rawText]
    IN [ok |-> ~allEmpty(normalized), value |-> normalized]

(***************************************************************************)
(* extractJsonFromCodeBlock (agent.ts 45-60).                              *)
(***************************************************************************)
\* the backtick character (the lexer of TLA+ rejects it inside a string)
Backtick == "BACKTICK"

\* a fence (three backticks) at position i
FenceAt(text, i) ==
    /\ i >= 1
    /\ i + 2 <= Len(text)
    /\ text[i] = Backtick /\ text[i + 1] = Backtick /\ text[i + 2] = Backtick

\* json at position i; the flag i of the first pattern ignores case
JsonAt(text, i, ignoreCase) ==
    /\ i + 3 <= Len(text)
    /\ text[i] \in (IF ignoreCase THEN {"j", "J"} ELSE {"j"})
    /\ text[i + 1] \in (IF ignoreCase THEN {"s", "S"} ELSE {"s"})
    /\ text[i + 2] \in (IF ignoreCase THEN {"o", "O"} ELSE {"o"})
    /\ text[i + 3] \in (IF ignoreCase THEN {"n", "N"} ELSE {"n"})

\* the first position at or after p that holds no white space
SkipSpaces(text, p) ==
    CHOOSE q \in p..(Len(text) + 1) :
        /\ q = Len(text) + 1 \/ ~IsSpace(text[q])
        /\ \A r \in p..(q - 1) : IsSpace(text[r])

\* where the group of the fence pattern (agent.ts 49) starts: after the
\* opening fence at i, an optional json tag and any white space
GroupStart(text, i) ==
    SkipSpaces(text, IF JsonAt(text, i + 3, TRUE) THEN i + 7 ELSE i + 3)

\* the pattern matches from i: an opening fence and a closing one after the group
FencedFrom(text, i) ==
    /\ FenceAt(text, i)
    /\ \E k \in GroupStart(text, i)..Len(text) : FenceAt(text, k)

\* match[1] of the leftmost match: the shortest group that white space and
\* a closing fence can follow
FencedGroup(text) ==
    LET i == CHOOSE x \in 1..Len(text) :
                 FencedFrom(text, x) /\ \A y \in 1..(x - 1) : ~FencedFrom(text, y)
        p == GroupStart(text, i)
        k == CHOOSE x \in p..Len(text) :
                 FenceAt(text, x) /\ \A y \in p..(x - 1) : ~FenceAt(text, y)
        e == CHOOSE x \in p..k :
                 /\ \A r \in x..(k - 1) : IsSpace(text[r])
                 /\ \A y \in p..(x - 1) : \E r \in y..(k - 1) : ~IsSpace(text[r])
    IN SubSeq(text, p, e - 1)

\* text.match(/\{[\s\S]*\}/): from the first { to the last }
HasBraces(text) ==
    \E i \in 1..Len(text) : \E j \in (i + 1)..Len(text) :
        text[i] = "{" /\ text[j] = "}"

\* the pattern with a lazy star: from the first { to the first } after it
BraceSpanLazy(text) ==
    LET i == CHOOSE x \in 1..Len(text) :
                 text[x] = "{" /\ \A y \in 1..(x - 1) : text[y] # "{"
        j == CHOOSE x \in (i + 1)..Len(text) :
                 text[x] = "}" /\ \A y \in (i + 1)..(x - 1) : text[y] # "}"
    IN SubSeq(text, i, j)

BraceSpan(text) ==
    LET i == CHOOSE x \in 1..Len(text) :
                 text[x] = "{" /\ \A y \in 1..(x - 1) : text[y] # "{"
        j == CHOOSE x \in 1..Len(text) :
                 text[x] = "}" /\ \A y \in (x + 1)..Len(text) : text[y] # "}"
    IN SubSeq(text, i, j)

\* text.replace of every fence, with its lower-case json tag, by ''
RECURSIVE StripFences(_)
StripFences(text) ==
    IF text = <<>> THEN <<>>
    ELSE IF FenceAt(text, 1)
         THEN StripFences(SubSeq(text, (IF JsonAt(text, 4, FALSE) THEN 8 ELSE 4),
                                 Len(text)))
    ELSE <<text[1]>> \o StripFences(Tail(text))

extractJsonFromCodeBlock(text) ==
    IF (\E i \in 1..Len(text) : FencedFrom(text, i)) /\ FencedGroup(text) # <<>>
    THEN Trim(FencedGroup(text))
    ELSE IF HasBraces(text) THEN Trim(BraceSpan(text))
    ELSE Trim(StripFences(text))

(***************************************************************************)
(* The objects the model can return, and their JSON texts.                *)
(***************************************************************************)
VendorSmall ==
    [EmptyVendor EXCEPT !.merchant_name = Str(<<"A">>), !.amount = Num(5)]

VendorItems ==
    [EmptyVendor EXCEPT
        !.issuer = [name |-> Str(<<"B">>), address |-> Undef],
        !.grand_total = Num(150),
        !.line_items = <<[NoLineItem EXCEPT !.name = Str(<<"X">>), !.qty = Num(2)]>>]

VendorRecords == {EmptyVendor, VendorSmall, VendorItems}

JsonEmpty ==
    <<"{", "}">>

JsonSmall ==
    <<"{", "\"", "m", "e", "r", "c", "h", "a", "n", "t", "_", "n", "a",
      "m", "e", "\"", ":", "\"", "A", "\"", ",", "\"", "a", "m", "o",
      "u", "n", "t", "\"", ":", "5", "}">>

JsonItems ==
    <<"{", "\"", "i", "s", "s", "u", "e", "r", "\"", ":", "{", "\"", "n",
      "a", "m", "e", "\"", ":", "\"", "B", "\"", "}", ",", "\"", "g",
      "r", "a", "n", "d", "_", "t", "o", "t", "a", "l", "\"", ":", "1",
      "5", "0", ",", "\"", "l", "i", "n", "e", "_", "i", "t", "e", "m",
      "s", "\"", ":", "[", "{", "\"", "n", "a", "m", "e", "\"", ":",
      "\"", "X", "\"", ",", "\"", "q", "t", "y", "\"", ":", "2", "}",
      "]", "}">>

\* the texts JSON.parse accepts, each with the object it denotes
JsonTable ==
    <<[text |-> JsonEmpty, value |-> EmptyVendor],
      [text |-> JsonSmall, value |-> VendorSmall],
      [text |-> JsonItems, value |-> VendorItems]>>

\* JSON.parse(text): [ok |-> FALSE] is the SyntaxError
JSONparse(text) ==
    IF \E i \in 1..Len(JsonTable) : JsonTable[i].text = text
    THEN [ok |-> TRUE,
          value |-> JsonTable[CHOOSE i \in 1..Len(JsonTable) :
                                  JsonTable[i].text = text].value]
    ELSE [ok |-> FALSE, value |-> EmptyVendor]

\* JSON.stringify(value)
JSONstringify(value) ==
    JsonTable[CHOOSE i \in 1..Len(JsonTable) : JsonTable[i].value = value].text

\* outputs of the agent that are text
TextFenced ==
    <<Backtick, Backtick, Backtick, "j", "s", "o", "n", "\n", "{", "\"",
      "m", "e", "r", "c", "h", "a", "n", "t", "_", "n", "a", "m", "e",
      "\"", ":", "\"", "A", "\"", ",", "\"", "a", "m", "o", "u", "n",
      "t", "\"", ":", "5", "}", "\n", Backtick, Backtick, Backtick>>

TextProse ==
    <<"o", "k", " ", "{", "}", " ", ".">>

TextGarbage ==
    <<"o", "o", "p", "s">>

OutputTexts == {TextFenced, TextProse, TextGarbage}

(***************************************************************************)
(* What agentNetwork.run can give (agent.ts 88-95): it throws, or returns  *)
(* a state whose results hold tool calls and an output.                    *)
(***************************************************************************)
NoOutput == [t |-> "undef", s |-> <<>>, o |-> EmptyVendor]
TextOutput(s) == [t |-> "str", s |-> s, o |-> EmptyVendor]
ObjectOutput(o) == [t |-> "obj", s |-> <<>>, o |-> o]
NumberOutput == [t |-> "num", s |-> <<>>, o |-> EmptyVendor]

ToolCall(hasData, data) == [hasData |-> hasData, data |-> data]

Returned(results) == [threw |-> FALSE, results |-> results]

AgentOutcomes ==
    {[threw |-> TRUE, results |-> <<>>], Returned(<<>>)}
    \cup {Returned(<<[toolCalls |-> <<ToolCall(TRUE, v)>>, output |-> NoOutput]>>) :
             v \in VendorRecords}
    \cup {Returned(<<[toolCalls |-> <<ToolCall(FALSE, EmptyVendor)>>,
                      output |-> TextOutput(TextFenced)]>>)}
    \cup {Returned(<<[toolCalls |-> <<>>, output |-> TextOutput(s)]>>) :
             s \in OutputTexts}
    \cup {Returned(<<[toolCalls |-> <<>>, output |-> o]>>) :
             o \in {ObjectOutput(VendorSmall), NumberOutput, NoOutput}}

\* a parse that falls back to the output when the last tool call has no data
ParseOutputFallback(res) ==
    LET results == res.results
        lastResult == results[Len(results)]
        toolCall == lastResult.toolCalls[Len(lastResult.toolCalls)]
        parsed == JSONparse(extractJsonFromCodeBlock(lastResult.output.s))
        fail == [ok |-> FALSE, data |-> EmptyVendor]
    IN IF Len(results) = 0 THEN fail
       ELSE IF Len(lastResult.toolCalls) > 0 /\ toolCall.hasData
            THEN [ok |-> TRUE, data |-> toolCall.data]
       ELSE IF lastResult.output.t = "str" /\ lastResult.output.s # <<>>
            THEN [ok |-> parsed.ok, data |-> parsed.value]
       ELSE IF lastResult.output.t = "obj"
            THEN [ok |-> TRUE, data |-> lastResult.output.o]
       ELSE fail

\* agent.ts 98-139: the extracted data, or the failure the catch turns into
\* the error result
ParseAgentResult(res) ==
    LET results == res.results
        lastResult == results[Len(results)]
        toolCall == lastResult.toolCalls[Len(lastResult.toolCalls)]
        parsed == JSONparse(extractJsonFromCodeBlock(lastResult.output.s))
        fail == [ok |-> FALSE, data |-> EmptyVendor]
    IN IF Len(results) = 0 THEN fail
       ELSE IF Len(lastResult.toolCalls) > 0
            THEN (IF toolCall.hasData
                  THEN [ok |-> TRUE, data |-> toolCall.data]
                  ELSE fail)
       ELSE IF lastResult.output.t = "str" /\ lastResult.output.s # <<>>
            THEN [ok |-> parsed.ok, data |-> parsed.value]
       ELSE IF lastResult.output.t = "obj"
            THEN [ok |-> TRUE, data |-> lastResult.output.o]
       ELSE fail

(***************************************************************************)
(* State.                                                                  *)
(*   receipts, storage  the receipts table and the file storage of Convex  *)
(*   events, nextId     the events sent to Inngest; the next id to issue   *)
(*   pc .. returned     one invocation of extractAndSavePDF: its position, *)
(*                      its event, its locals and the value it returned    *)
(*   trace, commits, failedAt                                              *)
(*                      history of the invocation: the stages it entered,  *)
(*                      the patches it applied and the stage that failed   *)
(*   fnIn, fnOut        argument and result of a function applied alone;   *)
(*                      for uploadPDF and the runs of the agent network,   *)
(*                      the call and the position and locals of the call   *)
(***************************************************************************)
VARIABLES receipts, storage, events, nextId,
          pc, event, receiptInfo, result, extractedData, normalizedData, returned,
          trace, commits, failedAt,
          fnIn, fnOut

storeVars == <<receipts, storage, events, nextId>>
jobVars == <<pc, event, receiptInfo, result, extractedData, normalizedData, returned>>
histVars == <<trace, commits, failedAt>>
fnVars == <<fnIn, fnOut>>
vars == <<receipts, storage, events, nextId,
          pc, event, receiptInfo, result, extractedData, normalizedData, returned,
          trace, commits, failedAt, fnIn, fnOut>>

FileName == <<"r", ".", "p", "d", "f">>
DownloadUrl == <<"u", "r", "l">>
UserId == "user"

\* the record storeReceipt inserts (receipts.ts 24-40)
NewReceipt(userId, fileId, fileName) ==
    [userId |-> userId, fileName |-> fileName, fileId |-> fileId,
     status |-> "pending",
     fileDisplayName |-> Undef,
     merchantName |-> Undef, merchantAddress |-> Undef, merchantContact |-> Undef,
     transactionDate |-> Undef, transactionAmount |-> Undef, currency |-> Undef,
     receiptSummary |-> Undef,
     items |-> <<>>]

\* the locals of an invocation before they are assigned
NoEvent == [receiptId |-> 0, url |-> Undef]
NoInfo == [fileName |-> <<>>]
NoResult == [threw |-> FALSE, results |-> <<>>]
NoData ==
    [fileDisplayName |-> <<>>, receiptId |-> 0,
     merchantName |-> <<>>, merchantAddress |-> <<>>, merchantContact |-> <<>>,
     transactionDate |-> <<>>, transactionAmount |-> <<>>, receiptSummary |-> <<>>,
     currency |-> <<>>, items |-> <<>>, rawExtractedData |-> <<>>]
NoReturn == [success |-> "absent", error |-> "", data |-> 0]

\* the value an invocation returns: {error} of the handler, or the
\* {success, data} / {success, error} of saveToDatabaseWithGemini
ErrorResult(msg) == [success |-> "absent", error |-> msg, data |-> 0]
SaveOk(receiptId) == [success |-> "true", error |-> "", data |-> receiptId]
SaveFailed(msg) == [success |-> "false", error |-> msg, data |-> 0]

\* the record of a receipt as an observer sees it: Absent when there is none
Absent == [status |-> "absent"]
Record(db, id) == IF id \in DOMAIN db THEN db[id] ELSE Absent

NoCall == [fn |-> "none"]

Init ==
    /\ receipts = <<>>
    /\ storage = {}
    /\ events = {}
    /\ nextId = 1
    /\ pc = [j \in Jobs |-> "idle"]
    /\ event = [j \in Jobs |-> NoEvent]
    /\ receiptInfo = [j \in Jobs |-> NoInfo]
    /\ result = [j \in Jobs |-> NoResult]
    /\ extractedData = [j \in Jobs |-> EmptyVendor]
    /\ normalizedData = [j \in Jobs |-> NoData]
    /\ returned = [j \in Jobs |-> NoReturn]
    /\ trace = [j \in Jobs |-> <<>>]
    /\ commits = [j \in Jobs |-> 0]
    /\ failedAt = [j \in Jobs |-> "none"]
    /\ fnIn = NoCall
    /\ fnOut = NoCall

(***************************************************************************)
(* The store (src/convex/receipts.ts).                                     *)
(***************************************************************************)
\* storeReceipt (receipts.ts 14-44): [db, id]
storeReceipt(db, id, userId, fileId, fileName) ==
    [db |-> [r \in DOMAIN db \cup {id} |->
                IF r = id THEN NewReceipt(userId, fileId, fileName) ELSE db[r]],
     id |-> id]

\* getReceiptDownloadUrl (receipts.ts 88-96): the url of a stored file, or
\* null (Undef) when the file is not in the storage
getReceiptDownloadUrl(files, fileId) ==
    IF fileId \in files THEN Str(DownloadUrl) ELSE Undef

\* getFileDownloadUrl (getFileDownloadUrl.ts 9-32)
getFileDownloadUrl(files, fileId) ==
    LET downloadUrl == getReceiptDownloadUrl(files, fileId)
    IN IF Truthy(downloadUrl)
       THEN [success |-> TRUE, downloadUrl |-> downloadUrl]
       ELSE [success |-> FALSE, downloadUrl |-> Undef]

\* uploadPDF (getFileDownloadUrl.ts 45-136) as one step: the user, the file,
\* its type and the upload are the inputs; only when all four are good is
\* anything changed.  SpecUpload below takes the call await by await.
uploadPDF(user, file, isPdf, uploadOk) ==
    /\ nextId <= MaxReceipts
    /\ IF user /\ file /\ isPdf /\ uploadOk
       THEN LET storageId == nextId
                stored == storeReceipt(receipts, nextId, UserId, storageId, FileName)
                fileUrl == getFileDownloadUrl(storage \cup {storageId}, storageId)
            IN /\ storage' = storage \cup {storageId}
               /\ receipts' = stored.db
               /\ events' = events \cup {[receiptId |-> stored.id,
                                          url |-> fileUrl.downloadUrl]}
               /\ nextId' = nextId + 1
       ELSE UNCHANGED storeVars
    /\ UNCHANGED <<jobVars, histVars, fnVars>>

\* deleteReceipt (receipts.ts 128-155)
deleteReceipt(id) ==
    /\ id \in DOMAIN receipts
    /\ storage' = storage \ {receipts[id].fileId}
    /\ receipts' = [r \in DOMAIN receipts \ {id} |-> receipts[r]]
    /\ UNCHANGED <<events, nextId, jobVars, histVars, fnVars>>

\* updateReceiptWithExtractedData without its check of the record: an id with
\* no record is answered as a success that patched nothing
updateReceiptUnchecked(db, args) ==
    [ok |-> TRUE,
     db |-> IF args.id \in DOMAIN db
            THEN [db EXCEPT ![args.id] =
                    [@ EXCEPT !.fileDisplayName = Str(args.fileDisplayName),
                              !.merchantName = Str(args.merchantName),
                              !.merchantAddress = Str(args.merchantAddress),
                              !.merchantContact = Str(args.merchantContact),
                              !.transactionDate = Str(args.transactionDate),
                              !.transactionAmount = Str(args.transactionAmount),
                              !.currency = Str(args.currency),
                              !.receiptSummary = Str(args.receiptSummary),
                              !.items = args.items,
                              !.status = "processed"]]
            ELSE db,
     patched |-> args.id \in DOMAIN db,
     userId |-> IF args.id \in DOMAIN db THEN db[args.id].userId ELSE ""]

\* updateReceiptWithExtractedData that marks the record processed and then
\* fails: the status is patched but the handler throws
updateReceiptPatchThenThrow(db, args) ==
    [ok |-> FALSE,
     db |-> IF args.id \in DOMAIN db
            THEN [db EXCEPT ![args.id] = [@ EXCEPT !.status = "processed"]]
            ELSE db,
     patched |-> args.id \in DOMAIN db,
     userId |-> ""]

\* updateReceiptWithExtractedData that patches every record of the owner of
\* the receipt instead of the record of the id
updateReceiptOfOwner(db, args) ==
    IF args.id \notin DOMAIN db
    THEN [ok |-> FALSE, db |-> db, patched |-> FALSE, userId |-> ""]
    ELSE [ok |-> TRUE,
          db |-> [r \in DOMAIN db |->
                    IF db[r].userId = db[args.id].userId
                    THEN [db[r] EXCEPT !.fileDisplayName = Str(args.fileDisplayName),
                                       !.merchantName = Str(args.merchantName),
                                       !.merchantAddress = Str(args.merchantAddress),
                                       !.merchantContact = Str(args.merchantContact),
                                       !.transactionDate = Str(args.transactionDate),
                                       !.transactionAmount = Str(args.transactionAmount),
                                       !.currency = Str(args.currency),
                                       !.receiptSummary = Str(args.receiptSummary),
                                       !.items = args.items,
                                       !.status = "processed"]
                    ELSE db[r]],
          patched |-> TRUE,
          userId |-> db[args.id].userId]

\* updateReceiptWithExtractedData that adds the items to those of the record
updateReceiptAppendItems(db, args) ==
    IF args.id \notin DOMAIN db
    THEN [ok |-> FALSE, db |-> db, patched |-> FALSE, userId |-> ""]
    ELSE [ok |-> TRUE,
          db |-> [db EXCEPT ![args.id] =
                    [@ EXCEPT !.fileDisplayName = Str(args.fileDisplayName),
                              !.merchantName = Str(args.merchantName),
                              !.merchantAddress = Str(args.merchantAddress),
                              !.merchantContact = Str(args.merchantContact),
                              !.transactionDate = Str(args.transactionDate),
                              !.transactionAmount = Str(args.transactionAmount),
                              !.currency = Str(args.currency),
                              !.receiptSummary = Str(args.receiptSummary),
                              !.items = @ \o args.items,
                              !.status = "processed"]],
          patched |-> TRUE,
          userId |-> db[args.id].userId]

\* updateReceiptWithExtractedData that inserts the record when the id has none
updateReceiptUpsert(db, args) ==
    [ok |-> TRUE,
     db |-> [r \in DOMAIN db \cup {args.id} |->
               IF r = args.id
               THEN [(IF r \in DOMAIN db THEN db[r] ELSE NewReceipt(UserId, r, FileName))
                        EXCEPT !.fileDisplayName = Str(args.fileDisplayName),
                               !.merchantName = Str(args.merchantName),
                               !.merchantAddress = Str(args.merchantAddress),
                               !.merchantContact = Str(args.merchantContact),
                               !.transactionDate = Str(args.transactionDate),
                               !.transactionAmount = Str(args.transactionAmount),
                               !.currency = Str(args.currency),
                               !.receiptSummary = Str(args.receiptSummary),
                               !.items = args.items,
                               !.status = "processed"]
               ELSE db[r]],
     patched |-> TRUE,
     userId |-> UserId]

\* updateReceiptWithExtractedData (receipts.ts 158-203): [ok, db, patched, userId];
\* ok is FALSE when the handler throws
updateReceiptWithExtractedData(db, args) ==
    IF args.id \notin DOMAIN db
    THEN [ok |-> FALSE, db |-> db, patched |-> FALSE, userId |-> ""]
    ELSE [ok |-> TRUE,
          db |-> [db EXCEPT ![args.id] =
                    [@ EXCEPT !.fileDisplayName = Str(args.fileDisplayName),
                              !.merchantName = Str(args.merchantName),
                              !.merchantAddress = Str(args.merchantAddress),
                              !.merchantContact = Str(args.merchantContact),
                              !.transactionDate = Str(args.transactionDate),
                              !.transactionAmount = Str(args.transactionAmount),
                              !.currency = Str(args.currency),
                              !.receiptSummary = Str(args.receiptSummary),
                              !.items = args.items,
                              !.status = "processed"]],
          patched |-> TRUE,
          userId |-> db[args.id].userId]

(***************************************************************************)
(* The two functions of the repository that extractAndSavePDF calls and    *)
(* whose source is not among the files: the metadata lookup and the        *)
(* persistence commit, as section 6 and 7 of the specification give them.  *)
(***************************************************************************)
\* getReceiptMetadata(receiptId) -> {fileName} | null
getReceiptByIdInternal(db, id) ==
    IF id \in DOMAIN db
    THEN [found |-> TRUE, info |-> [fileName |-> db[id].fileName]]
    ELSE [found |-> FALSE, info |-> NoInfo]

\* updateExtractedFields(receiptId, CanonicalReceiptFields) -> {ownerId}, every
\* error converted into {success: false, error}: [db, patched, result]
saveToDatabaseWithGemini(db, data, reachable) ==
    LET r == updateReceiptWithExtractedData(db,
                 [id |-> data.receiptId,
                  fileDisplayName |-> data.fileDisplayName,
                  merchantName |-> data.merchantName,
                  merchantAddress |-> data.merchantAddress,
                  merchantContact |-> data.merchantContact,
                  transactionDate |-> data.transactionDate,
                  transactionAmount |-> data.transactionAmount,
                  currency |-> data.currency,
                  receiptSummary |-> data.receiptSummary,
                  items |-> data.items])
    IN IF ~reachable
       THEN [db |-> db, patched |-> FALSE, result |-> SaveFailed("store unreachable")]
       ELSE IF r.ok
            THEN [db |-> r.db, patched |-> r.patched, result |-> SaveOk(data.receiptId)]
            ELSE [db |-> r.db, patched |-> r.patched,
                  result |-> SaveFailed("Unauthorized: Receipt not found.")]

(***************************************************************************)
(* extractAndSavePDF (agent.ts 62-299).  An invocation suspends at its     *)
(* three awaits: the metadata query, the agent network and the commit; the *)
(* code between two awaits is one step.  Its position is idle, fetching,   *)
(* invoking, persisting, and then done or failed when it has returned, or  *)
(* thrown when an exception has left the handler.                          *)
(***************************************************************************)
Terminal == {"done", "failed", "thrown"}

StageOrder == <<"fetch", "invoke", "extract", "map", "coerce", "persist">>

\* the locals are gone when the handler returns
Return(j, value, outcome) ==
    /\ returned' = [returned EXCEPT ![j] = value]
    /\ pc' = [pc EXCEPT ![j] = outcome]
    /\ receiptInfo' = [receiptInfo EXCEPT ![j] = NoInfo]
    /\ result' = [result EXCEPT ![j] = NoResult]
    /\ extractedData' = [extractedData EXCEPT ![j] = EmptyVendor]
    /\ normalizedData' = [normalizedData EXCEPT ![j] = NoData]

\* a try without its catch: the exception leaves the handler
Rethrow(msg) == [value |-> NoReturn, outcome |-> "thrown"]

\* a catch clause of the handler (agent.ts 74-77, 92-95, 135-139, 280-283):
\* the exception ends there and the handler returns {error: msg}
Catch(msg) == [value |-> ErrorResult(msg), outcome |-> "failed"]

\* the lookup without the test of agent.ts 79-82: a missing record goes on
LookupErrorIgnoringAbsent(queryOk, found) ==
    IF ~queryOk THEN Catch("Failed to fetch receipt information.")
    ELSE [value |-> NoReturn, outcome |-> ""]

\* agent.ts 70-82: the error the handler returns after the metadata query,
\* "" when it goes on
LookupError(queryOk, found) ==
    IF ~queryOk THEN Catch("Failed to fetch receipt information.")
    ELSE IF ~found THEN [value |-> ErrorResult("Receipt not found."), outcome |-> "failed"]
    ELSE [value |-> NoReturn, outcome |-> ""]

\* the event arrives and the handler sends the metadata query (agent.ts 65-73)
Start(j, e) ==
    /\ pc[j] = "idle"
    /\ e \in events
    /\ pc' = [pc EXCEPT ![j] = "fetching"]
    /\ event' = [event EXCEPT ![j] = e]
    /\ trace' = [trace EXCEPT ![j] = <<"fetch">>]
    /\ UNCHANGED <<storeVars, receiptInfo, result, extractedData, normalizedData,
                   returned, commits, failedAt, fnVars>>

\* the query answers (agent.ts 70-90): an error, no record, or the record,
\* and then the agent network is started
FetchMetadata(j, queryOk) ==
    /\ pc[j] = "fetching"
    /\ LET q == getReceiptByIdInternal(receipts, event[j].receiptId)
           err == LookupError(queryOk, q.found)
       IN /\ failedAt' = [failedAt EXCEPT ![j] =
                             IF queryOk /\ q.found THEN @ ELSE "fetch"]
          /\ IF err.outcome # ""
             THEN /\ Return(j, err.value, err.outcome)
                  /\ UNCHANGED trace
             ELSE /\ receiptInfo' = [receiptInfo EXCEPT ![j] = q.info]
                  /\ pc' = [pc EXCEPT ![j] = "invoking"]
                  /\ trace' = [trace EXCEPT ![j] = Append(@, "invoke")]
                  /\ UNCHANGED <<result, extractedData, normalizedData, returned>>
    /\ UNCHANGED <<storeVars, event, commits, fnVars>>

\* the stages when a failed stage does not end the invocation
StagesWithoutShortCircuit(parsedOk, normOk) ==
    <<"extract", "map", "coerce", "persist">>

\* the stages when an unparsable output is extracted a second time
StagesWithRetry(parsedOk, normOk) ==
    IF ~parsedOk THEN <<"extract", "extract">>
    ELSE IF ~normOk THEN <<"extract", "map", "coerce">>
    ELSE <<"extract", "map", "coerce", "persist">>

\* the stages the handler enters once the agent network has returned: it
\* stops at the first one that fails (agent.ts 96-285)
StagesAfterRun(parsedOk, normOk) ==
    IF ~parsedOk THEN <<"extract">>
    ELSE IF ~normOk THEN <<"extract", "map", "coerce">>
    ELSE <<"extract", "map", "coerce", "persist">>

\* the extracted data and the mapped record of every result of the agent
\* network (agent.ts 97-217)
ParsedOutcome == [res \in AgentOutcomes |-> ParseAgentResult(res)]

MappedOutcome ==
    [res \in AgentOutcomes |-> mapGeminiToExpectedFormat(ParsedOutcome[res].data)]

\* agentNetwork.run answers (agent.ts 85-285): it throws, or its result is
\* parsed, mapped and normalized, and the commit is sent
RunAgent(j, res) ==
    /\ pc[j] = "invoking"
    /\ res \in AgentOutcomes
    /\ LET parsed == ParsedOutcome[res]
           mappedData == MappedOutcome[res]
           norm == normalizeReceiptData(mappedData, event[j].receiptId,
                                        receiptInfo[j].fileName,
                                        JSONstringify(parsed.data))
           stages == StagesAfterRun(parsed.ok, norm.ok)
           last == stages[Len(stages)]
           thrown == Catch("Failed to process PDF with AI agent.")
           unparsed == Catch("Failed to extract data from receipt.")
           unusable == Catch("Failed to extract any usable receipt data.")
       IN IF res.threw
          THEN /\ Return(j, thrown.value, thrown.outcome)
               /\ failedAt' = [failedAt EXCEPT ![j] = "invoke"]
               /\ UNCHANGED trace
          ELSE /\ trace' = [trace EXCEPT ![j] = @ \o stages]
               /\ failedAt' = [failedAt EXCEPT ![j] =
                                  IF ~parsed.ok THEN "extract"
                                  ELSE IF ~norm.ok THEN "coerce" ELSE @]
               /\ IF last = "extract"
                  THEN Return(j, unparsed.value, unparsed.outcome)
                  ELSE IF last = "coerce"
                       THEN Return(j, unusable.value, unusable.outcome)
                  ELSE /\ result' = [result EXCEPT ![j] = res]
                       /\ extractedData' = [extractedData EXCEPT ![j] = parsed.data]
                       /\ normalizedData' = [normalizedData EXCEPT ![j] = norm.value]
                       /\ pc' = [pc EXCEPT ![j] = "persisting"]
                       /\ UNCHANGED <<receiptInfo, returned>>
    /\ UNCHANGED <<storeVars, event, commits, fnVars>>

\* the commit answers and the handler returns its result (agent.ts 285-297)
Persist(j, reachable) ==
    /\ pc[j] = "persisting"
    /\ LET saved == saveToDatabaseWithGemini(receipts, normalizedData[j], reachable)
       IN /\ receipts' = saved.db
          /\ commits' = [commits EXCEPT ![j] = @ + (IF saved.patched THEN 1 ELSE 0)]
          /\ failedAt' = [failedAt EXCEPT ![j] =
                             IF saved.result.success = "true" THEN @ ELSE "persist"]
          /\ Return(j, saved.result,
                    IF saved.result.success = "true" THEN "done" ELSE "failed")
    /\ UNCHANGED <<storage, events, nextId, event, trace, fnVars>>

Next ==
    \/ \E user, file, isPdf, uploadOk \in BOOLEAN : uploadPDF(user, file, isPdf, uploadOk)
    \/ \E id \in ReceiptIds : deleteReceipt(id)
    \/ \E j \in Jobs : \E e \in events : Start(j, e)
    \/ \E j \in Jobs : \E queryOk \in BOOLEAN : FetchMetadata(j, queryOk)
    \/ \E j \in Jobs : \E res \in AgentOutcomes : RunAgent(j, res)
    \/ \E j \in Jobs : \E reachable \in BOOLEAN : Persist(j, reachable)

Spec == Init /\ [][Next]_vars

\* every await of a started invocation settles: the query, the agent network
\* and the commit answer or fail
JobStep(j) ==
    \/ \E queryOk \in BOOLEAN : FetchMetadata(j, queryOk)
    \/ \E res \in AgentOutcomes : RunAgent(j, res)
    \/ \E reachable \in BOOLEAN : Persist(j, reachable)

FairSpec == Spec /\ \A j \in Jobs : WF_vars(JobStep(j))

(***************************************************************************)
(* Invocations for different receipts: a file has been uploaded for every  *)
(* invocation, each under its own name, and invocation j is the one the    *)
(* event of receipt j starts.  The invocations run in every interleaving,  *)
(* and the user may delete a receipt at any time.                          *)
(***************************************************************************)
FileNameOf(r) == <<Digits[r + 1]>> \o FileName

EventOf(r) == [receiptId |-> r, url |-> Str(DownloadUrl)]

InitConcurrent ==
    /\ receipts = [r \in Jobs |-> NewReceipt(UserId, r, FileNameOf(r))]
    /\ storage = Jobs
    /\ events = {EventOf(r) : r \in Jobs}
    /\ nextId = MaxJobs + 1
    /\ pc = [j \in Jobs |-> "idle"]
    /\ event = [j \in Jobs |-> NoEvent]
    /\ receiptInfo = [j \in Jobs |-> NoInfo]
    /\ result = [j \in Jobs |-> NoResult]
    /\ extractedData = [j \in Jobs |-> EmptyVendor]
    /\ normalizedData = [j \in Jobs |-> NoData]
    /\ returned = [j \in Jobs |-> NoReturn]
    /\ trace = [j \in Jobs |-> <<>>]
    /\ commits = [j \in Jobs |-> 0]
    /\ failedAt = [j \in Jobs |-> "none"]
    /\ fnIn = NoCall
    /\ fnOut = NoCall

NextConcurrent ==
    \/ \E id \in Jobs : deleteReceipt(id)
    \/ \E j \in Jobs : Start(j, EventOf(j))
    \/ \E j \in Jobs : \E queryOk \in BOOLEAN : FetchMetadata(j, queryOk)
    \/ \E j \in Jobs : \E res \in AgentOutcomes : RunAgent(j, res)
    \/ \E j \in Jobs : \E reachable \in BOOLEAN : Persist(j, reachable)

SpecConcurrent == InitConcurrent /\ [][NextConcurrent]_vars

(***************************************************************************)
(* normalizeReceiptData applied alone, to every record of raw values.      *)
(***************************************************************************)
RawValues == {Undef, Str(<<>>), Str(<<"x">>)}

RawItems ==
    {<<>>,
     <<[name |-> Str(<<>>), quantity |-> Num(0), unitPrice |-> Num(0),
        totalPrice |-> Num(0)]>>,
     <<[name |-> Str(<<"S">>), quantity |-> Num(0), unitPrice |-> Num(0),
        totalPrice |-> Num(0)]>>}

NormalizeCalls ==
    {[fn |-> "normalizeReceiptData",
      data |-> [merchantName |-> a, merchantAddress |-> b, merchantContact |-> c,
                transactionDate |-> d, transactionAmount |-> e, currency |-> f,
                receiptSummary |-> Str(<<>>), items |-> i],
      fileDisplayName |-> n] :
        a \in RawValues, b \in RawValues, c \in RawValues, d \in RawValues,
        e \in RawValues, f \in RawValues, i \in RawItems, n \in {<<>>, FileName}}

InitNormalize ==
    /\ receipts = <<>>
    /\ storage = {}
    /\ events = {}
    /\ nextId = 1
    /\ pc = [j \in Jobs |-> "idle"]
    /\ event = [j \in Jobs |-> NoEvent]
    /\ receiptInfo = [j \in Jobs |-> NoInfo]
    /\ result = [j \in Jobs |-> NoResult]
    /\ extractedData = [j \in Jobs |-> EmptyVendor]
    /\ normalizedData = [j \in Jobs |-> NoData]
    /\ returned = [j \in Jobs |-> NoReturn]
    /\ trace = [j \in Jobs |-> <<>>]
    /\ commits = [j \in Jobs |-> 0]
    /\ failedAt = [j \in Jobs |-> "none"]
    /\ fnIn \in NormalizeCalls
    /\ fnOut = NoCall

CallNormalize ==
    /\ fnIn.fn = "normalizeReceiptData"
    /\ fnOut.fn = "none"
    /\ LET r == normalizeReceiptData(fnIn.data, 1, fnIn.fileDisplayName, <<>>)
       IN fnOut' = [fn |-> "normalizeReceiptData", ok |-> r.ok, value |-> r.value]
    /\ UNCHANGED <<storeVars, jobVars, histVars, fnIn>>

NextNormalize == CallNormalize

SpecNormalize == InitNormalize /\ [][NextNormalize]_vars

(***************************************************************************)
(* The state of the pipeline when a function is applied alone: nothing is  *)
(* stored and no invocation has started.                                   *)
(***************************************************************************)
NoPipeline ==
    /\ receipts = <<>>
    /\ storage = {}
    /\ events = {}
    /\ nextId = 1
    /\ pc = [j \in Jobs |-> "idle"]
    /\ event = [j \in Jobs |-> NoEvent]
    /\ receiptInfo = [j \in Jobs |-> NoInfo]
    /\ result = [j \in Jobs |-> NoResult]
    /\ extractedData = [j \in Jobs |-> EmptyVendor]
    /\ normalizedData = [j \in Jobs |-> NoData]
    /\ returned = [j \in Jobs |-> NoReturn]
    /\ trace = [j \in Jobs |-> <<>>]
    /\ commits = [j \in Jobs |-> 0]
    /\ failedAt = [j \in Jobs |-> "none"]

(***************************************************************************)
(* extractJsonFromCodeBlock applied alone, to every text of at most        *)
(* MaxTokens pieces: a fence, a json tag in either case, white space,      *)
(* braces, a JSON object and a letter.                                     *)
(***************************************************************************)
MaxTokens == 4

Fence == <<Backtick, Backtick, Backtick>>

JsonA == <<"{", "\"", "a", "\"", ":", "1", "}">>

Tokens ==
    {Fence, <<"j", "s", "o", "n">>, <<"J", "S", "O", "N">>, <<" ">>,
     <<"{">>, <<"}">>, JsonA, <<"g">>}

RECURSIVE TextsOf(_)
TextsOf(n) ==
    IF n = 0 THEN {<<>>}
    ELSE TextsOf(n - 1) \cup {t \o k : t \in TextsOf(n - 1), k \in Tokens}

ExtractCalls == {[fn |-> "extractJsonFromCodeBlock", text |-> t] : t \in TextsOf(MaxTokens)}

InitExtract ==
    /\ NoPipeline
    /\ fnIn \in ExtractCalls
    /\ fnOut = NoCall

CallExtract ==
    /\ fnIn.fn = "extractJsonFromCodeBlock"
    /\ fnOut.fn = "none"
    /\ fnOut' = [fn |-> "extractJsonFromCodeBlock",
                 value |-> extractJsonFromCodeBlock(fnIn.text)]
    /\ UNCHANGED <<storeVars, jobVars, histVars, fnIn>>

NextExtract == CallExtract

SpecExtract == InitExtract /\ [][NextExtract]_vars

(***************************************************************************)
(* toNumber applied alone: to undefined, to numbers, and to the texts made *)
(* of white space, a sign, at most MaxDigits digits, decimals and letters. *)
(***************************************************************************)
MaxDigits == 2

RECURSIVE DigitTexts(_)
DigitTexts(n) ==
    IF n = 0 THEN {<<>>}
    ELSE DigitTexts(n - 1)
         \cup {t \o <<d>> : t \in DigitTexts(n - 1), d \in {"0", "1", "2"}}

NumberTexts ==
    {pre \o sign \o whole \o decimals \o post :
        pre \in {<<>>, <<" ">>}, sign \in {<<>>, <<"-">>},
        whole \in DigitTexts(MaxDigits),
        decimals \in {<<>>, <<".">>, <<".", "5">>, <<".", "5", "0">>, <<".", "0", "5">>},
        post \in {<<>>, <<"a", "b", "c">>}}

NumberCalls ==
    {[fn |-> "toNumber", v |-> v] :
        v \in {Undef, Num(0), Num(12), [Num(0) EXCEPT !.n = 1250]}
              \cup {Str(t) : t \in NumberTexts}}

InitNumber ==
    /\ NoPipeline
    /\ fnIn \in NumberCalls
    /\ fnOut = NoCall

CallToNumber ==
    /\ fnIn.fn = "toNumber"
    /\ fnOut.fn = "none"
    /\ fnOut' = [fn |-> "toNumber", value |-> toNumber(fnIn.v)]
    /\ UNCHANGED <<storeVars, jobVars, histVars, fnIn>>

NextNumber == CallToNumber

SpecNumber == InitNumber /\ [][NextNumber]_vars

(***************************************************************************)
(* toItems applied alone: to a value that is no array and to every array   *)
(* of at most MaxItems raw items.                                          *)
(***************************************************************************)
MaxItems == 2

RawItem ==
    [name : {Undef, Str(<<>>), Str(<<"S", "o", "d", "a">>)},
     quantity : {Num(0), Num(2), Str(<<"a", "b", "c">>)},
     unitPrice : {Undef, Num(0)},
     totalPrice : {Num(0), Str(<<"1", ".", "5">>)}]

RECURSIVE ArraysOf(_)
ArraysOf(n) ==
    IF n = 0 THEN {<<>>}
    ELSE ArraysOf(n - 1) \cup {a \o <<i>> : a \in ArraysOf(n - 1), i \in RawItem}

ItemsCalls ==
    {[fn |-> "toItems", arr |-> a] :
        a \in {NotArray} \cup {Array(e) : e \in ArraysOf(MaxItems)}}

InitItems ==
    /\ NoPipeline
    /\ fnIn \in ItemsCalls
    /\ fnOut = NoCall

CallToItems ==
    /\ fnIn.fn = "toItems"
    /\ fnOut.fn = "none"
    /\ fnOut' = [fn |-> "toItems", value |-> toItems(fnIn.arr)]
    /\ UNCHANGED <<storeVars, jobVars, histVars, fnIn>>

NextItems == CallToItems

SpecItems == InitItems /\ [][NextItems]_vars

(***************************************************************************)
(* mapGeminiToExpectedFormat and then normalizeReceiptData (agent.ts 217,  *)
(* 279) applied alone to vendor records: the candidates of one canonical   *)
(* field at a time take every combination of absent, empty and populated,  *)
(* and so do the keys of a line item.                                      *)
(***************************************************************************)
Texts3(a) == {Undef, Str(<<>>), Str(<<a>>)}

NameInputs ==
    {[EmptyVendor EXCEPT !.issuer.name = a, !.merchant_name = b, !.issued_to.name = c] :
        a \in Texts3("p"), b \in Texts3("q"), c \in Texts3("r")}

AddressInputs ==
    {[EmptyVendor EXCEPT !.merchant_address = a, !.issuer.address = b,
                         !.issued_to.address = c] :
        a \in Texts3("p"), b \in Texts3("q"), c \in Texts3("r")}

ContactInputs ==
    {[EmptyVendor EXCEPT !.merchant_contact = a, !.merchant_phone = b] :
        a \in Texts3("p"), b \in Texts3("q")}

DateInputs ==
    {[EmptyVendor EXCEPT !.date_issued = a, !.transaction_date = b, !.date = c] :
        a \in Texts3("p"), b \in Texts3("q"), c \in Texts3("r")}

AmountInputs ==
    {[EmptyVendor EXCEPT !.grand_total = a, !.total_amount = b, !.amount = c] :
        a \in {Undef, Num(0), Num(7), Str(<<>>)},
        b \in {Undef, Num(0), Str(<<"8">>)},
        c \in {Undef, [Num(0) EXCEPT !.n = 1250]}}

CurrencyInputs == {[EmptyVendor EXCEPT !.currency = a] : a \in Texts3("E")}

LineItemInputs ==
    {[NoLineItem EXCEPT !.description = d, !.name = n, !.qty = q, !.quantity = k,
                        !.price = p, !.subtotal = t, !.amount = a] :
        d \in {Undef, Str(<<"d">>)}, n \in Texts3("n"),
        q \in {Undef, Num(2), Str(<<"a", "b", "c">>)}, k \in {Undef, Num(3)},
        p \in {Undef, Num(4)}, t \in {Undef, Num(0)}, a \in {Undef, Num(6)}}

ItemsInputs ==
    {[EmptyVendor EXCEPT !.line_items = <<i>>] : i \in LineItemInputs}
    \cup {[EmptyVendor EXCEPT !.line_items = <<NoLineItem, i>>] :
             i \in {NoLineItem, [NoLineItem EXCEPT !.name = Str(<<"n">>)]}}

\* line_items of every length up to MaxLines for the item clause of the
\* summary (agent.ts 163-179): the i-th item has the i-th letter as its
\* description, or no key at all
MaxLines == 6

LineLetters == <<"A", "B", "C", "D", "E", "F", "G", "H">>

NamedLine(i) == [NoLineItem EXCEPT !.description = Str(<<LineLetters[i]>>)]

LinesOf(n) ==
    {[i \in 1..n |-> IF f[i] THEN NamedLine(i) ELSE NoLineItem] : f \in [1..n -> BOOLEAN]}

ClauseInputs ==
    {[EmptyVendor EXCEPT !.line_items = l] : l \in UNION {LinesOf(n) : n \in 0..MaxLines}}

\* vendor records for the insights of the summary (agent.ts 182-196): totals
\* around 100, item counts around 5, bank name and payment method absent,
\* empty or populated
InsightInputs ==
    {[EmptyVendor EXCEPT !.grand_total = t, !.note.bank_name = b,
                         !.payment_method = p, !.line_items = [i \in 1..n |-> NoLineItem]] :
        t \in {Num(50), Num(100), [Num(100) EXCEPT !.n = 10001], Num(150),
               Str(<<"1", "5", "0">>), Undef},
        b \in Texts3("K"), p \in {Undef, Str(<<"V">>)}, n \in {0, 5, 6}}

\* merchant 'Acme', date '2024-01-01', total 50, currency '$', items 'A' and 'B'
AcmeVendor ==
    [EmptyVendor EXCEPT
        !.merchant_name = Str(<<"A", "c", "m", "e">>),
        !.transaction_date = Str(<<"2", "0", "2", "4", "-", "0", "1", "-", "0", "1">>),
        !.total_amount = Num(50),
        !.currency = Str(<<"$">>),
        !.line_items = <<NamedLine(1), NamedLine(2)>>]

\* line items whose keys are absent or numbers, alone and followed by an
\* item without keys
NumericItems ==
    {[NoLineItem EXCEPT !.description = d, !.qty = q, !.quantity = k, !.price = p,
                        !.total = t] :
        d \in {Undef, Num(0)}, q \in {Undef, Num(0), Num(2)},
        k \in {Undef, Num(0), Num(3)}, p \in {Undef, Num(0), Num(4)},
        t \in {Undef, Num(0)}}

NumericItemsInputs ==
    {[EmptyVendor EXCEPT !.line_items = <<i>>] : i \in NumericItems}
    \cup {[EmptyVendor EXCEPT !.line_items = <<i, NoLineItem>>] : i \in NumericItems}

VendorInputs ==
    NameInputs \cup AddressInputs \cup ContactInputs \cup DateInputs
    \cup AmountInputs \cup CurrencyInputs \cup ItemsInputs \cup VendorRecords
    \cup ClauseInputs \cup InsightInputs \cup {AcmeVendor} \cup NumericItemsInputs

MapCalls == {[fn |-> "mapGeminiToExpectedFormat", geminiData |-> v] : v \in VendorInputs}

InitMap ==
    /\ NoPipeline
    /\ fnIn \in MapCalls
    /\ fnOut = NoCall

CallMap ==
    /\ fnIn.fn = "mapGeminiToExpectedFormat"
    /\ fnOut.fn = "none"
    /\ LET mappedData == mapGeminiToExpectedFormat(fnIn.geminiData)
           norm == normalizeReceiptData(mappedData, 1, FileName, <<>>)
       IN fnOut' = [fn |-> "mapGeminiToExpectedFormat", mapped |-> mappedData,
                    ok |-> norm.ok, normalized |-> norm.value]
    /\ UNCHANGED <<storeVars, jobVars, histVars, fnIn>>

NextMap == CallMap

SpecMap == InitMap /\ [][NextMap]_vars

(***************************************************************************)
(* updateReceiptWithExtractedData (receipts.ts 158-203) applied alone: to  *)
(* a store with no record, with a pending or a processed record of one     *)
(* user and with records of two users, for an id that has a record or has  *)
(* none.                                                                   *)
(***************************************************************************)
ProcessedReceipt(userId, fileId, fileName) ==
    [NewReceipt(userId, fileId, fileName) EXCEPT
        !.status = "processed", !.merchantName = Str(<<"O">>),
        !.items = <<[name |-> <<"o">>, quantity |-> Unit, unitPrice |-> 0,
                     totalPrice |-> 0]>>]

UpdateStores ==
    {<<>>,
     <<NewReceipt(UserId, 1, FileName)>>,
     <<ProcessedReceipt(UserId, 1, FileName)>>,
     <<NewReceipt(UserId, 1, FileName), NewReceipt("other", 2, FileName)>>,
     [r \in {2} |-> NewReceipt("other", 2, FileName)]}

UpdateArgs ==
    {[id |-> id, fileDisplayName |-> FileName, merchantName |-> m,
      merchantAddress |-> <<>>, merchantContact |-> <<>>, transactionDate |-> <<>>,
      transactionAmount |-> a, currency |-> <<"$">>, receiptSummary |-> s,
      items |-> i] :
        id \in 1..2, m \in {<<>>, <<"M">>}, a \in {<<"0">>, <<"7">>},
        s \in {<<>>, <<"S">>},
        i \in {<<>>, <<[name |-> <<"n">>, quantity |-> Unit, unitPrice |-> 0,
                        totalPrice |-> 0]>>}}

UpdateCalls ==
    {[fn |-> "updateReceiptWithExtractedData", db |-> db, args |-> a] :
        db \in UpdateStores, a \in UpdateArgs}

InitUpdate ==
    /\ NoPipeline
    /\ fnIn \in UpdateCalls
    /\ fnOut = NoCall

CallUpdate ==
    /\ fnIn.fn = "updateReceiptWithExtractedData"
    /\ fnOut.fn = "none"
    /\ LET r == updateReceiptWithExtractedData(fnIn.db, fnIn.args)
       IN fnOut' = [fn |-> "updateReceiptWithExtractedData", ok |-> r.ok, db |-> r.db,
                    patched |-> r.patched, userId |-> r.userId]
    /\ UNCHANGED <<storeVars, jobVars, histVars, fnIn>>

NextUpdate == CallUpdate

SpecUpdate == InitUpdate /\ [][NextUpdate]_vars

(***************************************************************************)
(* uploadPDF (getFileDownloadUrl.ts 45-136) await by await, with           *)
(* deleteReceipt running between its steps: fnIn holds the form and the    *)
(* answers of the user service, the storage and the event service, fnOut   *)
(* the position of the call and its locals.  The positions are called,     *)
(* uploaded (the file is in the storage), stored (storeReceipt has         *)
(* answered), located (getFileDownloadUrl has answered) and done.          *)
(***************************************************************************)
MaxUploads == 2

UploadForms ==
    [fn : {"uploadPDF"}, user : BOOLEAN, file : BOOLEAN, isPdf : BOOLEAN,
     uploadOk : BOOLEAN, sendOk : BOOLEAN]

\* the locals of a call before they are assigned; calls counts the calls made
NoUpload(calls) ==
    [fn |-> "uploadPDF", at |-> "called", storageId |-> 0, receiptId |-> 0,
     fileUrl |-> Undef, success |-> FALSE, calls |-> calls]

InitUpload ==
    /\ NoPipeline
    /\ fnIn = NoCall
    /\ fnOut = [NoUpload(0) EXCEPT !.at = "done"]

\* the action is called (getFileDownloadUrl.ts 45)
BeginUpload(form) ==
    /\ fnOut.at = "done"
    /\ fnOut.calls < MaxUploads
    /\ fnIn' = form
    /\ fnOut' = NoUpload(fnOut.calls + 1)
    /\ UNCHANGED <<storeVars, jobVars, histVars>>

\* the checks of the user, the file and its type, and the upload of the file
\* to the storage (getFileDownloadUrl.ts 46-96)
UploadFile ==
    /\ fnOut.fn = "uploadPDF" /\ fnOut.at = "called"
    /\ IF fnIn.user /\ fnIn.file /\ fnIn.isPdf /\ fnIn.uploadOk
       THEN /\ storage' = storage \cup {nextId}
            /\ nextId' = nextId + 1
            /\ fnOut' = [fnOut EXCEPT !.at = "uploaded", !.storageId = nextId]
       ELSE /\ fnOut' = [fnOut EXCEPT !.at = "done"]
            /\ UNCHANGED <<storage, nextId>>
    /\ UNCHANGED <<receipts, events, jobVars, histVars, fnIn>>

\* storeReceipt answers (getFileDownloadUrl.ts 99-105)
StoreRecord ==
    /\ fnOut.fn = "uploadPDF" /\ fnOut.at = "uploaded"
    /\ LET stored == storeReceipt(receipts, fnOut.storageId, UserId, fnOut.storageId,
                                  FileName)
       IN /\ receipts' = stored.db
          /\ fnOut' = [fnOut EXCEPT !.at = "stored", !.receiptId = stored.id]
    /\ UNCHANGED <<storage, events, nextId, jobVars, histVars, fnIn>>

\* getFileDownloadUrl answers (getFileDownloadUrl.ts 108-109)
LocateFile ==
    /\ fnOut.fn = "uploadPDF" /\ fnOut.at = "stored"
    /\ fnOut' = [fnOut EXCEPT !.at = "located",
                              !.fileUrl = getFileDownloadUrl(storage, fnOut.storageId).downloadUrl]
    /\ UNCHANGED <<storeVars, jobVars, histVars, fnIn>>

\* inngest.send answers or throws, and the action returns
\* (getFileDownloadUrl.ts 112-135)
SendEvent ==
    /\ fnOut.fn = "uploadPDF" /\ fnOut.at = "located"
    /\ events' = IF fnIn.sendOk
                 THEN events \cup {[receiptId |-> fnOut.receiptId, url |-> fnOut.fileUrl]}
                 ELSE events
    /\ fnOut' = [fnOut EXCEPT !.at = "done", !.success = fnIn.sendOk]
    /\ UNCHANGED <<receipts, storage, nextId, jobVars, histVars, fnIn>>

NextUpload ==
    \/ \E form \in UploadForms : BeginUpload(form)
    \/ UploadFile
    \/ StoreRecord
    \/ LocateFile
    \/ SendEvent
    \/ \E id \in 1..MaxUploads : deleteReceipt(id)

SpecUpload == InitUpload /\ [][NextUpload]_vars

(***************************************************************************)
(* The agent network (agent.ts 21-36) and its runs (agent.ts 88-90).  A    *)
(* run of the network asks the router for the next agent, runs the agents  *)
(* scheduled one after another, appends each result to the state of the    *)
(* run and asks the router again, until nothing is scheduled.  Every       *)
(* invocation has a run of its own, with its own state.  The router is     *)
(* defaultRouter; the routing agent it returns selects the receipt         *)
(* scanning agent or nothing.                                              *)
(***************************************************************************)
MaxResults == 3

\* a router that never ends the run
routerAlways(network) == "routingAgent"

\* defaultRouter (agent.ts 30-36): undefined ends the run
defaultRouter(network) ==
    IF Len(network.state.results) > 0 THEN "undefined" ELSE "routingAgent"

\* the results an agent can give
AgentResults == {res.results[1] : res \in {o \in AgentOutcomes : Len(o.results) = 1}}

NoRun == [at |-> "idle", results |-> <<>>, stack |-> <<>>, answers |-> <<>>]

InitRouter ==
    /\ NoPipeline
    /\ fnIn = NoCall
    /\ fnOut = [fn |-> "agentNetwork.run", run |-> [j \in Jobs |-> NoRun]]

\* agentNetwork.run is called (agent.ts 88)
StartRun(j) ==
    /\ fnOut.run[j].at = "idle"
    /\ fnOut' = [fnOut EXCEPT !.run[j].at = "routing"]
    /\ UNCHANGED <<storeVars, jobVars, histVars, fnIn>>

\* the router is asked; the routing agent selects the scanning agent or none
Route(j, select) ==
    /\ fnOut.run[j].at = "routing"
    /\ LET r == fnOut.run[j]
           answer == defaultRouter([state |-> [results |-> r.results]])
           next == IF answer = "routingAgent" /\ select
                   THEN <<"receiptScanningAgent">> ELSE <<>>
           stack == r.stack \o next
       IN fnOut' = [fnOut EXCEPT !.run[j] =
                       [r EXCEPT !.answers = Append(@, answer),
                                 !.stack = stack,
                                 !.at = IF stack = <<>> THEN "done" ELSE "running"]]
    /\ UNCHANGED <<storeVars, jobVars, histVars, fnIn>>

\* the first scheduled agent runs: it throws, or its result is appended
RunScheduled(j, threw, res) ==
    /\ fnOut.run[j].at = "running"
    /\ Len(fnOut.run[j].results) < MaxResults
    /\ res \in AgentResults
    /\ LET r == fnOut.run[j]
       IN fnOut' = [fnOut EXCEPT !.run[j] =
                       IF threw
                       THEN [r EXCEPT !.at = "threw"]
                       ELSE [r EXCEPT !.stack = Tail(@),
                                      !.results = Append(@, res),
                                      !.at = "routing"]]
    /\ UNCHANGED <<storeVars, jobVars, histVars, fnIn>>

NextRouter ==
    \/ \E j \in Jobs : StartRun(j)
    \/ \E j \in Jobs : \E select \in BOOLEAN : Route(j, select)
    \/ \E j \in Jobs : \E threw \in BOOLEAN : \E res \in AgentResults :
           RunScheduled(j, threw, res)

SpecRouter == InitRouter /\ [][NextRouter]_vars

(***************************************************************************)
(* The parse of the agent result (agent.ts 98-139) applied alone: the last *)
(* result has no, one or two tool calls, with or without data, and an      *)
(* output that is absent, a text, an object or a number; another result    *)
(* may precede it.                                                         *)
(***************************************************************************)
ToolCalls == {ToolCall(TRUE, v) : v \in VendorRecords} \cup {ToolCall(FALSE, EmptyVendor)}

ToolCallLists ==
    {<<>>} \cup {<<a>> : a \in ToolCalls} \cup {<<a, b>> : a \in ToolCalls, b \in ToolCalls}

Outputs ==
    {TextOutput(s) : s \in OutputTexts}
    \cup {ObjectOutput(VendorSmall), NumberOutput, NoOutput}

ParseCalls ==
    {[fn |-> "parse", res |-> Returned(before \o <<[toolCalls |-> c, output |-> o]>>)] :
        before \in {<<>>, <<[toolCalls |-> <<ToolCall(TRUE, VendorItems)>>,
                              output |-> TextOutput(TextProse)]>>},
        c \in ToolCallLists, o \in Outputs}

InitParse ==
    /\ NoPipeline
    /\ fnIn \in ParseCalls
    /\ fnOut = NoCall

CallParse ==
    /\ fnIn.fn = "parse"
    /\ fnOut.fn = "none"
    /\ LET parsed == ParseAgentResult(fnIn.res)
       IN fnOut' = [fn |-> "parse", ok |-> parsed.ok, data |-> parsed.data]
    /\ UNCHANGED <<storeVars, jobVars, histVars, fnIn>>

NextParse == CallParse

SpecParse == InitParse /\ [][NextParse]_vars

(***************************************************************************)
(* The pipeline together with updateReceiptStatus (receipts.ts 99-125).    *)
(* ctx.auth.getUserIdentity() gives null, or the identity of the caller:   *)
(* its subject and the claims of its token, among which a claim userId may *)
(* be missing, equal to the subject or different from it.                  *)
(***************************************************************************)
NoIdentity == [present |-> FALSE, subject |-> Undef, userId |-> Undef]

Identities ==
    {NoIdentity}
    \cup {[present |-> TRUE, subject |-> Str(<<"u", "s", "e", "r">>), userId |-> c] :
             c \in {Undef, Str(<<"u", "s", "e", "r">>), Str(<<"o", "t", "h", "e", "r">>)}}

Statuses == {"pending", "processed", "error"}

\* updateReceiptStatus (receipts.ts 99-125): receipt is the identity of the
\* caller, so receipt.userId is the claim userId of the token; the handler
\* throws and changes nothing unless that claim equals the subject, and the
\* patch throws when the id has no record
updateReceiptStatus(id, status, identity) ==
    /\ LET receipt == identity
           userId == identity.subject
       IN IF receipt.present /\ receipt.userId = userId /\ id \in DOMAIN receipts
          THEN receipts' = [receipts EXCEPT ![id].status = status]
          ELSE UNCHANGED receipts
    /\ UNCHANGED <<storage, events, nextId, jobVars, histVars, fnVars>>

NextStatus ==
    \/ Next
    \/ \E id \in ReceiptIds : \E status \in Statuses : \E identity \in Identities :
           updateReceiptStatus(id, status, identity)

SpecStatus == Init /\ [][NextStatus]_vars

(***************************************************************************)
(* Properties.                                                             *)
(***************************************************************************)
Stages(j) == {trace[j][i] : i \in 1..Len(trace[j])}

IsPrefix(s, t) == Len(s) <= Len(t) /\ \A i \in 1..Len(s) : s[i] = t[i]

\* the patches applied to the record of receipt r by all invocations
RECURSIVE SumCommits(_, _)
SumCommits(r, js) ==
    IF js = {} THEN 0
    ELSE LET j == CHOOSE x \in js : TRUE
         IN (IF event[j].receiptId = r THEN commits[j] ELSE 0)
            + SumCommits(r, js \ {j})

CommitsTo(r) == SumCommits(r, Jobs)

\* C1: an invocation whose extracted vendor record is all-empty (no recognized
\* key, no line items) never reaches the commit: it ends with the failure
\* 'Failed to extract any usable receipt data.'
C1_AllEmptyRejected ==
    \A j \in Jobs : pc[j] = "persisting" => extractedData[j] # EmptyVendor

\* C2: an invocation that ended in success has applied exactly one commit,
\* and one that ended in any failure has applied none.
C2_CommitCount ==
    \A j \in Jobs :
        /\ pc[j] = "done" => commits[j] = 1
        /\ pc[j] = "failed" => commits[j] = 0

C2_Witness ==
    \E j, k \in Jobs :
        /\ pc[j] = "done" /\ commits[j] = 1
        /\ pc[k] = "failed" /\ failedAt[k] = "persist" /\ commits[k] = 0

C4_FailureLeavesRecord ==
    [][\A j \in Jobs :
          (pc'[j] # pc[j] /\ pc'[j] # "done")
              => Record(receipts', event'[j].receiptId)
                     = Record(receipts, event'[j].receiptId)]_vars

C4_Witness ==
    \E j \in Jobs :
        /\ pc[j] = "failed"
        /\ failedAt[j] = "persist"
        /\ returned[j] = SaveFailed("store unreachable")
        /\ Record(receipts, event[j].receiptId).status = "pending"

C6_LookupFailureEnds ==
    \A j \in Jobs :
        failedAt[j] = "fetch" =>
            /\ pc[j] = "failed"
            /\ returned[j].error # ""
            /\ trace[j] = <<"fetch">>
            /\ commits[j] = 0

C6_Witness ==
    \E j \in Jobs :
        /\ failedAt[j] = "fetch"
        /\ returned[j] = ErrorResult("Receipt not found.")

\* C7: when the agent result cannot be turned into extracted data, or the
\* normalization rejects the record, no later stage is entered, an error
\* result is returned and the invocation has not committed (it has not set
\* the status to processed).
C7_ShortCircuit ==
    \A j \in Jobs :
        failedAt[j] \in {"extract", "coerce"} =>
            /\ pc[j] = "failed"
            /\ returned[j].error # ""
            /\ trace[j][Len(trace[j])] = failedAt[j]
            /\ "persist" \notin Stages(j)
            /\ commits[j] = 0

C7_Witness ==
    \E j \in Jobs :
        /\ failedAt[j] = "extract"
        /\ returned[j] = ErrorResult("Failed to extract data from receipt.")
        /\ Record(receipts, event[j].receiptId).status = "pending"

\* C8: the stages of an invocation are entered in the order fetch, invoke,
\* extract, map, coerce, persist, each at most once; an outcome, once
\* reached, does not change; and every started invocation reaches done or
\* failed.
C8_StagesInOrder ==
    /\ [](\A j \in Jobs : IsPrefix(trace[j], StageOrder))
    /\ [][\A j \in Jobs : pc[j] \in Terminal => pc'[j] = pc[j]]_vars
    /\ \A j \in Jobs : (pc[j] = "fetching") ~> (pc[j] \in {"done", "failed"})

C8_Witness ==
    \E j, k \in Jobs :
        /\ pc[j] = "done" /\ trace[j] = StageOrder
        /\ pc[k] = "failed" /\ trace[k] = <<"fetch", "invoke", "extract">>

\* C9: a returned value is a success or an error, never both: one that
\* carries an error means the invocation applied no commit, and a success
\* means it applied its commit.
C9_ResultMatchesCommit ==
    \A j \in Jobs :
        pc[j] \in {"done", "failed"} =>
            /\ (returned[j].success = "true") # (returned[j].error # "")
            /\ returned[j].error # "" => commits[j] = 0
            /\ returned[j].success = "true" => commits[j] = 1

C9_Witness ==
    \E j, k \in Jobs :
        /\ returned[j].success = "true" /\ commits[j] = 1
        /\ returned[k].success = "false" /\ returned[k].error # ""

\* C10 as stated: whatever the invocations for a receipt, duplicates
\* included, at most one commit of extracted fields is applied to it.
C10_AtMostOneCommit == \A r \in ReceiptIds : CommitsTo(r) <= 1

\* C10: each invocation applies at most one commit, on its success: the
\* commits applied to a receipt are as many as the invocations for it that
\* succeeded, which duplicate events make more than one.
C10_OneCommitPerSuccess ==
    \A r \in ReceiptIds :
        /\ \A j \in Jobs : commits[j] <= 1
        /\ CommitsTo(r) = Cardinality({j \in Jobs : event[j].receiptId = r
                                                     /\ pc[j] = "done"})

C10_Witness == \E r \in ReceiptIds : CommitsTo(r) = 2

\* the record holds the extracted fields of data
SameFields(rec, data) ==
    /\ rec.status = "processed"
    /\ rec.fileDisplayName = Str(data.fileDisplayName)
    /\ rec.merchantName = Str(data.merchantName)
    /\ rec.merchantAddress = Str(data.merchantAddress)
    /\ rec.merchantContact = Str(data.merchantContact)
    /\ rec.transactionDate = Str(data.transactionDate)
    /\ rec.transactionAmount = Str(data.transactionAmount)
    /\ rec.currency = Str(data.currency)
    /\ rec.receiptSummary = Str(data.receiptSummary)
    /\ rec.items = data.items

Locals(k) ==
    <<pc[k], event[k], receiptInfo[k], result[k], extractedData[k],
      normalizedData[k], returned[k]>>

\* C11: with invocations for different receipts running in any
\* interleaving, a step of an invocation leaves the record of every other
\* receipt and the locals of every other invocation unchanged, it reads the
\* file name of its own record, and its commit writes into its own record
\* the fields it computed from its own inputs: the record of a receipt is
\* what its invocation alone makes it.
C11_OwnRecordOnly ==
    [][\A j \in Jobs :
          pc'[j] # pc[j] =>
              /\ \A r \in Jobs \ {event'[j].receiptId} :
                    Record(receipts', r) = Record(receipts, r)
              /\ \A k \in Jobs \ {j} : Locals(k)' = Locals(k)
              /\ pc'[j] = "invoking"
                    => receiptInfo'[j].fileName = FileNameOf(event[j].receiptId)
              /\ pc'[j] = "done"
                    => /\ normalizedData[j].receiptId = event[j].receiptId
                       /\ normalizedData[j].fileDisplayName
                              = FileNameOf(event[j].receiptId)
                       /\ SameFields(Record(receipts', event[j].receiptId),
                                     normalizedData[j])]_vars

C11_Witness ==
    \E j, k \in Jobs :
        /\ pc[j] = "done" /\ pc[k] = "done"
        /\ event[j].receiptId # event[k].receiptId
        /\ Record(receipts, event[j].receiptId).status = "processed"
        /\ Record(receipts, event[k].receiptId).status = "processed"
        /\ Record(receipts, event[j].receiptId).merchantName
               # Record(receipts, event[k].receiptId).merchantName
        /\ Record(receipts, event[j].receiptId).fileDisplayName
               = Str(FileNameOf(event[j].receiptId))

\* a block delimited by fences: an opening fence and another fence after it
HasBlock(text) ==
    \E i, k \in 1..Len(text) : FenceAt(text, i) /\ FenceAt(text, k) /\ k >= i + 3

\* the text between the first fence and the next one, without a json tag (in
\* either case) at its start, trimmed
FirstBlockInterior(text) ==
    LET i == CHOOSE x \in 1..Len(text) :
                 FenceAt(text, x) /\ \A y \in 1..(x - 1) : ~FenceAt(text, y)
        k == CHOOSE x \in (i + 3)..Len(text) :
                 FenceAt(text, x) /\ \A y \in (i + 3)..(x - 1) : ~FenceAt(text, y)
        inner == SubSeq(text, i + 3, k - 1)
    IN Trim(IF Len(inner) >= 4
               /\ inner[1] \in {"j", "J"} /\ inner[2] \in {"s", "S"}
               /\ inner[3] \in {"o", "O"} /\ inner[4] \in {"n", "N"}
            THEN SubSeq(inner, 5, Len(inner))
            ELSE inner)

\* C13: for a text that contains a fenced block, extractJsonFromCodeBlock
\* returns the trimmed interior of the first block (its json tag apart),
\* whatever braces the text holds elsewhere, and also when the interior is
\* empty.
C13_FencedInterior ==
    (fnOut.fn = "extractJsonFromCodeBlock" /\ HasBlock(fnIn.text))
        => fnOut.value = FirstBlockInterior(fnIn.text)

\* a { with a } after it
HasSpan(text) ==
    \E i, j \in 1..Len(text) : i < j /\ text[i] = "{" /\ text[j] = "}"

\* from the first { to the last }
WidestSpan(text) ==
    LET opens == {i \in 1..Len(text) : text[i] = "{"}
        closes == {j \in 1..Len(text) : text[j] = "}"}
        first == CHOOSE i \in opens : \A x \in opens : i <= x
        last == CHOOSE j \in closes : \A x \in closes : x <= j
    IN SubSeq(text, first, last)

\* the backticks that end at position p, counted back from it
RECURSIVE TicksBefore(_, _)
TicksBefore(text, p) ==
    IF p >= 1 /\ text[p] = Backtick THEN 1 + TicksBefore(text, p - 1) ELSE 0

\* the positions a fence marker covers: the three backticks of a fence (cut
\* from the left of a run of backticks) and a json tag right after them
InMarker(text, p) ==
    \E i \in 1..Len(text) :
        /\ FenceAt(text, i)
        /\ TicksBefore(text, i - 1) % 3 = 0
        /\ p >= i
        /\ p <= (IF JsonAt(text, i + 3, FALSE) THEN i + 6 ELSE i + 2)

RECURSIVE Keep(_, _)
Keep(text, p) ==
    IF p > Len(text) THEN <<>>
    ELSE (IF InMarker(text, p) THEN <<>> ELSE <<text[p]>>) \o Keep(text, p + 1)

WithoutMarkers(text) == Keep(text, 1)

\* C14: for a text with no fenced block, extractJsonFromCodeBlock returns the
\* substring from the first { to the last } when a { is followed by a },
\* and otherwise the text without its fence markers (a fence and the json
\* tag that follows it), trimmed.
C14_WidestSpan ==
    (fnOut.fn = "extractJsonFromCodeBlock" /\ ~HasBlock(fnIn.text))
        => fnOut.value = (IF HasSpan(fnIn.text) THEN WidestSpan(fnIn.text)
                          ELSE Trim(WithoutMarkers(fnIn.text)))

C14_Witness ==
    /\ fnOut.fn = "extractJsonFromCodeBlock"
    /\ fnIn.text = <<"g">> \o JsonA \o <<"}">> \o <<"g">>
    /\ fnOut.value = JsonA \o <<"}">>

\* C20: toNumber gives the number a value parses as, and 0 for every value
\* whose parse fails: '12.50' gives 12.5, '12' gives 12 and 'abc' gives 0.
C20_NumericCoercion ==
    fnOut.fn = "toNumber" =>
        /\ fnOut.value = (IF JSNumber(fnIn.v).nan THEN 0 ELSE JSNumber(fnIn.v).n)
        /\ fnIn.v = Str(<<"1", "2", ".", "5", "0">>) => fnOut.value = 12 * Unit + 50
        /\ fnIn.v = Str(<<"1", "2">>) => fnOut.value = 12 * Unit
        /\ fnIn.v = Str(<<"a", "b", "c">>) => fnOut.value = 0

C20_Witness ==
    /\ fnOut.fn = "toNumber"
    /\ fnIn.v = Str(<<"1", "2", ".", "5", "0">>)
    /\ fnOut.value = 1250

\* an item after field coercion that the filter drops: no name and three zeros
IsBlank(item) ==
    item.name = <<>> /\ item.quantity = 0 /\ item.unitPrice = 0 /\ item.totalPrice = 0

\* the positions of the items of arr that are kept
Kept(elems) == {i \in 1..Len(elems) : ~IsBlank(CoerceItem(elems[i]))}

\* the k-th kept position, in the order of the input
NthKept(elems, k) ==
    CHOOSE i \in Kept(elems) : Cardinality({x \in Kept(elems) : x < i}) = k - 1

SodaItem ==
    [name |-> Str(<<"S", "o", "d", "a">>), quantity |-> Num(0), unitPrice |-> Num(0),
     totalPrice |-> Num(0)]

BlankItem ==
    [name |-> Str(<<>>), quantity |-> Num(0), unitPrice |-> Num(0),
     totalPrice |-> Num(0)]

\* C19: toItems gives, in the order of the input, the coerced items other
\* than those with an empty name and zero quantity, unitPrice and
\* totalPrice: {name:'', 0, 0, 0} is dropped, {name:'Soda', 0, 0, 0} is kept,
\* and an input that is no array gives the empty list.
C19_ItemsFiltered ==
    fnOut.fn = "toItems" =>
        /\ ~fnIn.arr.array => fnOut.value = <<>>
        /\ fnIn.arr.array =>
              /\ Len(fnOut.value) = Cardinality(Kept(fnIn.arr.elems))
              /\ \A k \in 1..Len(fnOut.value) :
                    fnOut.value[k] = CoerceItem(fnIn.arr.elems[NthKept(fnIn.arr.elems, k)])
        /\ fnIn.arr = Array(<<BlankItem>>) => fnOut.value = <<>>
        /\ fnIn.arr = Array(<<SodaItem>>) => Len(fnOut.value) = 1

C19_Witness ==
    /\ fnOut.fn = "toItems"
    /\ fnIn.arr = Array(<<BlankItem, SodaItem>>)
    /\ fnOut.value = <<[name |-> <<"S", "o", "d", "a">>, quantity |-> 0,
                        unitPrice |-> 0, totalPrice |-> 0]>>

\* a candidate that is present and non-empty: a non-empty text or a number
\* other than 0
Populated(v) == (v.t = "str" /\ v.s # <<>>) \/ (v.t = "num" /\ v.n # 0)

\* the first populated candidate, or the default when there is none
RECURSIVE FirstPopulated(_, _)
FirstPopulated(candidates, default) ==
    IF candidates = <<>> THEN default
    ELSE IF Populated(candidates[1]) THEN candidates[1]
    ELSE FirstPopulated(Tail(candidates), default)

NameCandidates(g) == <<g.issuer.name, g.merchant_name, g.issued_to.name>>
AddressCandidates(g) == <<g.merchant_address, g.issuer.address, g.issued_to.address>>
ContactCandidates(g) == <<g.merchant_contact, g.merchant_phone>>
DateCandidates(g) == <<g.date_issued, g.transaction_date, g.date>>
AmountCandidates(g) == <<g.grand_total, g.total_amount, g.amount>>

\* C15: each canonical field of the mapped record is the first of its
\* candidates, in their fixed order, that is present and non-empty, and ''
\* when there is none: merchantName is issuer.name, else merchant_name, else
\* issued_to.name, else ''.
C15_FirstCandidateWins ==
    fnOut.fn = "mapGeminiToExpectedFormat" =>
        LET g == fnIn.geminiData
        IN /\ fnOut.mapped.merchantName = FirstPopulated(NameCandidates(g), Str(<<>>))
           /\ fnOut.mapped.merchantAddress
                 = FirstPopulated(AddressCandidates(g), Str(<<>>))
           /\ fnOut.mapped.merchantContact
                 = FirstPopulated(ContactCandidates(g), Str(<<>>))
           /\ fnOut.mapped.transactionDate = FirstPopulated(DateCandidates(g), Str(<<>>))
           /\ (\E i \in 1..3 : Populated(AmountCandidates(g)[i]))
                 => fnOut.mapped.transactionAmount
                        = Str(JSString(FirstPopulated(AmountCandidates(g), Undef)))
           /\ Populated(g.currency) => fnOut.mapped.currency = g.currency

C15_Witness ==
    /\ fnOut.fn = "mapGeminiToExpectedFormat"
    /\ fnIn.geminiData.issuer.name = Str(<<>>)
    /\ fnIn.geminiData.merchant_name = Str(<<"q">>)
    /\ fnIn.geminiData.issued_to.name = Str(<<"r">>)
    /\ fnOut.mapped.merchantName = Str(<<"q">>)

\* no candidate of the field is present in the vendor record
NoneOf(candidates) == \A i \in 1..Len(candidates) : candidates[i] = Undef

C18_AmountAndCurrency ==
    fnOut.fn = "mapGeminiToExpectedFormat" =>
        LET g == fnIn.geminiData
        IN /\ (\E i \in 1..3 : Populated(AmountCandidates(g)[i]))
                 => \E i \in 1..3 :
                       /\ Populated(AmountCandidates(g)[i])
                       /\ \A k \in 1..(i - 1) : ~Populated(AmountCandidates(g)[k])
                       /\ fnOut.mapped.transactionAmount
                              = Str(JSString(AmountCandidates(g)[i]))
           /\ Populated(g.currency) => fnOut.mapped.currency = g.currency
           /\ g.currency = Undef => fnOut.mapped.currency = Str(<<"$">>)

C18_Witness ==
    /\ fnOut.fn = "mapGeminiToExpectedFormat"
    /\ fnIn.geminiData.grand_total = Num(0)
    /\ fnIn.geminiData.total_amount = Str(<<"8">>)
    /\ fnIn.geminiData.amount.n = 1250
    /\ fnIn.geminiData.currency = Undef
    /\ fnOut.mapped.transactionAmount = Str(<<"8">>)
    /\ fnOut.mapped.currency = Str(<<"$">>)

\* some candidate of the field is populated
SomeOf(candidates) == \E i \in 1..Len(candidates) : Populated(candidates[i])

\* the keys mapGeminiToExpectedFormat reads in a line item
ItemKeys(item) ==
    <<item.description, item.name, item.qty, item.quantity, item.price,
      item.unit_price, item.subtotal, item.total, item.amount>>

\* the scalar fields: a populated alias makes the field non-empty, in the
\* mapped and in the normalized record
ScalarsPopulated(g, m, n) ==
    /\ SomeOf(NameCandidates(g)) => Populated(m.merchantName) /\ n.merchantName # <<>>
    /\ SomeOf(AddressCandidates(g))
          => Populated(m.merchantAddress) /\ n.merchantAddress # <<>>
    /\ SomeOf(ContactCandidates(g))
          => Populated(m.merchantContact) /\ n.merchantContact # <<>>
    /\ SomeOf(DateCandidates(g))
          => Populated(m.transactionDate) /\ n.transactionDate # <<>>
    /\ SomeOf(AmountCandidates(g))
          => Populated(m.transactionAmount) /\ n.transactionAmount # <<>>
    /\ Populated(g.currency) => Populated(m.currency) /\ n.currency # <<>>

\* C16 as stated: when an alias of a canonical field is populated, or a key
\* of a line item is, the mapped and then normalized record has that field
\* non-empty.
C16_PopulatedStaysNonEmpty ==
    fnOut.fn = "mapGeminiToExpectedFormat" =>
        LET g == fnIn.geminiData
        IN /\ ScalarsPopulated(g, fnOut.mapped, fnOut.normalized)
           /\ (\E i \in 1..Len(g.line_items) : SomeOf(ItemKeys(g.line_items[i])))
                 => fnOut.normalized.items # <<>>

\* the first populated alias is a number other than 0, or a text that parses
\* to one
CountsAsNumber(candidates) ==
    SomeOf(candidates) /\ toNumber(FirstPopulated(candidates, Undef)) # 0

\* a line item that has a description or a name, or a quantity, a unit price
\* or a total price that is a number other than 0
ItemCounts(item) ==
    \/ SomeOf(<<item.description, item.name>>)
    \/ CountsAsNumber(<<item.qty, item.quantity>>)
    \/ CountsAsNumber(<<item.price, item.unit_price>>)
    \/ CountsAsNumber(<<item.subtotal, item.total, item.amount>>)

\* C16: a populated alias of merchantName, merchantAddress, merchantContact,
\* transactionDate, transactionAmount or currency makes that field non-empty
\* in the mapped and in the normalized record; a populated key of a line
\* item makes the mapped items non-empty, and the normalized items are
\* non-empty when some line item has a description or a name, or a
\* quantity, unit price or total price whose first populated alias is a
\* number other than 0.
C16_PopulatedMapped ==
    fnOut.fn = "mapGeminiToExpectedFormat" =>
        LET g == fnIn.geminiData
        IN /\ ScalarsPopulated(g, fnOut.mapped, fnOut.normalized)
           /\ (\E i \in 1..Len(g.line_items) : SomeOf(ItemKeys(g.line_items[i])))
                 => fnOut.mapped.items # <<>>
           /\ (\E i \in 1..Len(g.line_items) : ItemCounts(g.line_items[i]))
                 => fnOut.normalized.items # <<>>

C16_Witness ==
    /\ fnOut.fn = "mapGeminiToExpectedFormat"
    /\ Len(fnIn.geminiData.line_items) = 1
    /\ fnIn.geminiData.line_items[1].qty = Str(<<"a", "b", "c">>)
    /\ fnIn.geminiData.line_items[1].quantity = Undef
    /\ fnIn.geminiData.line_items[1].amount = Num(6)
    /\ fnIn.geminiData.line_items[1].name = Undef
    /\ fnIn.geminiData.line_items[1].description = Undef
    /\ Len(fnOut.normalized.items) = 1
    /\ fnOut.normalized.items[1].quantity = 0
    /\ fnOut.normalized.items[1].totalPrice = 6 * Unit

\* the text t occurs in the text s
Contains(s, t) == \E i \in 0..(Len(s) - Len(t)) : SubSeq(s, i + 1, i + Len(t)) = t

\* the names of the line items that have one, in order
RECURSIVE LineNames(_)
LineNames(lines) ==
    IF lines = <<>> THEN <<>>
    ELSE LET nm == FirstPopulated(<<lines[1].description, lines[1].name>>, Undef)
         IN (IF nm = Undef THEN <<>> ELSE <<nm.s>>) \o LineNames(Tail(lines))

\* the names separated by a comma and a space
RECURSIVE CommaList(_)
CommaList(names) ==
    IF names = <<>> THEN <<>>
    ELSE IF Len(names) = 1 THEN names[1]
    ELSE names[1] \o <<",", " ">> \o CommaList(Tail(names))

\* the names the item clause lists: those of the first three line items
ListedNames(lines) ==
    LineNames(SubSeq(lines, 1, IF Len(lines) < 3 THEN Len(lines) ELSE 3))

\* the remainder count of a summary of n > 3 line items
RemainderCount(n) == TxtAnd \o NatToString(n - 3) \o TxtOtherItem

\* the parts of the item clause that hold of every summary: no clause for
\* no items, the count for n > 0, the names of up to three items
ItemClauseCommon(lines, s) ==
    LET n == Len(lines)
        names == ListedNames(lines)
    IN /\ n = 0 => ~Contains(s, TxtIncluded)
       /\ n > 0 => Contains(s, TxtIncluded \o NatToString(n) \o TxtItem)
       /\ (n > 0 /\ names # <<>>) => Contains(s, TxtIncluding \o CommaList(names))
       /\ n <= 3 => ~Contains(s, TxtOtherItem)

\* C21 as stated: with n line items the summary states the item count when
\* n > 0, lists the names of all the items when 1 <= n <= 3, and when n > 3
\* lists the names of the first three items followed by a remainder count of
\* n - 3; when n = 0 there is no item clause.
C21_RemainderAlways ==
    fnOut.fn = "mapGeminiToExpectedFormat" =>
        LET lines == fnIn.geminiData.line_items
            s == fnOut.mapped.receiptSummary.s
        IN /\ ItemClauseCommon(lines, s)
           /\ Len(lines) > 3 => Contains(s, RemainderCount(Len(lines)))

\* C21: with n line items the summary states the item count when n > 0 and
\* has no item clause when n = 0; when one of the first three items has a
\* name the summary lists the names among the first three, followed by a
\* remainder count of n - 3 when n > 3; when none of the first three items
\* has a name the summary has neither a list of names nor a remainder count.
C21_ItemClause ==
    fnOut.fn = "mapGeminiToExpectedFormat" =>
        LET lines == fnIn.geminiData.line_items
            s == fnOut.mapped.receiptSummary.s
            n == Len(lines)
            names == ListedNames(lines)
        IN /\ ItemClauseCommon(lines, s)
           /\ (n > 3 /\ names # <<>>)
                 => Contains(s, TxtIncluding \o CommaList(names) \o RemainderCount(n))
           /\ (n > 0 /\ n <= 3 /\ names # <<>>)
                 => Contains(s, TxtIncluding \o CommaList(names) \o <<".">>)
           /\ (n > 0 /\ names = <<>>)
                 => /\ ~Contains(s, TxtIncluding)
                    /\ ~Contains(s, TxtOtherItem)

C21_Witness ==
    /\ fnOut.fn = "mapGeminiToExpectedFormat"
    /\ fnIn.geminiData.line_items
          = <<NamedLine(1), NoLineItem, NamedLine(3), NamedLine(4), NoLineItem>>
    /\ Contains(fnOut.mapped.receiptSummary.s,
                <<"5", " ", "i", "t", "e", "m", "s", " ", "i", "n", "c", "l", "u", "d",
                  "i", "n", "g", " ", "A", ",", " ", "C", " ", "a", "n", "d", " ", "2",
                  " ", "o", "t", "h", "e", "r", " ", "i", "t", "e", "m", "s", ".">>)

\* the total the summary reports, as a number of hundredths
TotalOf(g) == toNumber(FirstPopulated(AmountCandidates(g), Num(0)))

\* C22: the summary has the high-value clause exactly when the total is
\* greater than 100, the bulk shopping clause exactly when there are more
\* than 5 items, and a paid via clause exactly when a bank name or a payment
\* method is populated; for merchant 'Acme', date '2024-01-01', total 50,
\* currency '$' and items 'A' and 'B' it contains 'Acme', '2024-01-01',
\* '$50' and both item names, and no high-value clause.
C22_InsightClauses ==
    fnOut.fn = "mapGeminiToExpectedFormat" =>
        LET g == fnIn.geminiData
            s == fnOut.mapped.receiptSummary.s
        IN /\ Contains(s, TxtHighValue) <=> TotalOf(g) > 100 * Unit
           /\ Contains(s, TxtBulk) <=> Len(g.line_items) > 5
           /\ Contains(s, TxtPaidVia) <=> SomeOf(<<g.note.bank_name, g.payment_method>>)
           /\ g = AcmeVendor =>
                 /\ Contains(s, <<"A", "c", "m", "e">>)
                 /\ Contains(s, <<"2", "0", "2", "4", "-", "0", "1", "-", "0", "1">>)
                 /\ Contains(s, <<"$", "5", "0", ".">>)
                 /\ Contains(s, <<" ", "A", ",", " ", "B", ".">>)
                 /\ ~Contains(s, TxtHighValue)

C22_Witness ==
    /\ fnOut.fn = "mapGeminiToExpectedFormat"
    /\ fnIn.geminiData.grand_total = Num(150)
    /\ Len(fnIn.geminiData.line_items) = 6
    /\ fnIn.geminiData.note.bank_name = Undef
    /\ fnIn.geminiData.payment_method = Str(<<"V">>)
    /\ Contains(fnOut.mapped.receiptSummary.s,
                TxtThisWasA \o TxtHighValue \o TxtAnd \o TxtBulk \o TxtAnd
                \o TxtPaidVia \o <<"V">> \o TxtTransaction)

\* the JSON text of a vendor payload
PayloadText(v) ==
    CASE v = EmptyVendor -> JsonEmpty
      [] v = VendorSmall -> JsonSmall
      [] v = VendorItems -> JsonItems

\* C23: in every record normalizeReceiptData returns, rawExtractedData is the
\* JSON text of the vendor payload as it was extracted, before the mapping;
\* this holds also of a record with required fields missing.
C23_RawIsOriginalPayload ==
    \A j \in Jobs :
        pc[j] = "persisting" =>
            /\ extractedData[j] \in VendorRecords
            /\ normalizedData[j].rawExtractedData = PayloadText(extractedData[j])

C23_Witness ==
    \E j \in Jobs :
        /\ pc[j] = "persisting"
        /\ extractedData[j] = VendorSmall
        /\ normalizedData[j].merchantAddress = <<>>
        /\ normalizedData[j].items = <<>>
        /\ normalizedData[j].rawExtractedData = JsonSmall

\* the record holds the extracted fields of args and is processed
HoldsExtracted(rec, args) ==
    /\ rec.fileDisplayName = Str(args.fileDisplayName)
    /\ rec.merchantName = Str(args.merchantName)
    /\ rec.merchantAddress = Str(args.merchantAddress)
    /\ rec.merchantContact = Str(args.merchantContact)
    /\ rec.transactionDate = Str(args.transactionDate)
    /\ rec.transactionAmount = Str(args.transactionAmount)
    /\ rec.currency = Str(args.currency)
    /\ rec.receiptSummary = Str(args.receiptSummary)
    /\ rec.items = args.items
    /\ rec.status = "processed"

\* C24: updateReceiptWithExtractedData fails when the id has no record and
\* then leaves the store as it was; when the record exists it writes every
\* extracted field and the status processed in one update, leaves the
\* owner, the file and every other record as they were, and returns the id
\* of the owner.
C24_CommitOrNothing ==
    fnOut.fn = "updateReceiptWithExtractedData" =>
        LET db == fnIn.db
            args == fnIn.args
        IN /\ args.id \notin DOMAIN db =>
                 ~fnOut.ok /\ ~fnOut.patched /\ fnOut.db = db
           /\ args.id \in DOMAIN db =>
                 /\ fnOut.ok /\ fnOut.patched
                 /\ fnOut.userId = db[args.id].userId
                 /\ DOMAIN fnOut.db = DOMAIN db
                 /\ HoldsExtracted(fnOut.db[args.id], args)
                 /\ fnOut.db[args.id].userId = db[args.id].userId
                 /\ fnOut.db[args.id].fileId = db[args.id].fileId
                 /\ fnOut.db[args.id].fileName = db[args.id].fileName
                 /\ \A r \in DOMAIN db \ {args.id} : fnOut.db[r] = db[r]

C24_Witness ==
    /\ fnOut.fn = "updateReceiptWithExtractedData"
    /\ fnIn.db = <<NewReceipt(UserId, 1, FileName), NewReceipt("other", 2, FileName)>>
    /\ fnIn.args.id = 2
    /\ fnIn.args.merchantName = <<"M">>
    /\ fnOut.ok
    /\ fnOut.userId = "other"
    /\ fnOut.db[2].status = "processed"
    /\ fnOut.db[2].merchantName = Str(<<"M">>)
    /\ fnOut.db[1].status = "pending"

\* C25 as stated: an event is emitted only by a call whose user, file, type
\* and upload were good, after the file was stored and the receipt created,
\* and it carries the id of that receipt and a url that is a string locating
\* the stored file.
C25_EventLocatesFile ==
    [][\A e \in events' \ events :
           /\ fnIn.user /\ fnIn.file /\ fnIn.isPdf /\ fnIn.uploadOk
           /\ fnOut.storageId # 0 /\ fnOut.receiptId # 0
           /\ e.receiptId = fnOut.receiptId
           /\ e.url = Str(DownloadUrl)]_vars

\* C26: in every step of a run of the network the router answers with the
\* routing agent exactly when the state of the run has no result, a run
\* that has a result ends at its next routing, and no run ever has more
\* than one result: the scanning agent runs at most once per event.
C26_RouterRunsAgentOnce ==
    [][\A j \in Jobs :
           LET r == fnOut.run[j]
               q == fnOut'.run[j]
           IN /\ Len(q.results) <= 1
              /\ Len(q.answers) > Len(r.answers)
                    => (q.answers[Len(q.answers)] = "routingAgent" <=> r.results = <<>>)
              /\ (r.at = "routing" /\ r.results # <<>> /\ q # r) => q.at = "done"]_vars

C26_Witness ==
    \E j \in Jobs :
        /\ fnOut.fn = "agentNetwork.run"
        /\ fnOut.run[j].at = "done"
        /\ Len(fnOut.run[j].results) = 1
        /\ fnOut.run[j].answers = <<"routingAgent", "undefined">>

\* C27: when the last result has a tool call, the extracted data is the data
\* of its last tool call whatever the output is, and the parse fails when
\* that tool call has no data, also when the output could be parsed; with no
\* tool call a text output goes through extractJsonFromCodeBlock and
\* JSON.parse and an object output is the extracted data.
C27_ToolCallBeforeOutput ==
    fnOut.fn = "parse" =>
        LET results == fnIn.res.results
            last == results[Len(results)]
            calls == last.toolCalls
            text == JSONparse(extractJsonFromCodeBlock(last.output.s))
        IN /\ (calls # <<>> /\ calls[Len(calls)].hasData)
                 => fnOut.ok /\ fnOut.data = calls[Len(calls)].data
           /\ (calls # <<>> /\ ~calls[Len(calls)].hasData) => ~fnOut.ok
           /\ (calls = <<>> /\ last.output.t = "str")
                 => /\ fnOut.ok = text.ok
                    /\ fnOut.ok => fnOut.data = text.value
                    /\ last.output.s = TextFenced => fnOut.ok /\ fnOut.data = VendorSmall
                    /\ last.output.s = TextProse => fnOut.ok /\ fnOut.data = EmptyVendor
                    /\ last.output.s = TextGarbage => ~fnOut.ok
           /\ (calls = <<>> /\ last.output.t = "obj")
                 => fnOut.ok /\ fnOut.data = last.output.o
           /\ (calls = <<>> /\ last.output.t \notin {"str", "obj"}) => ~fnOut.ok

C27_Witness ==
    /\ fnOut.fn = "parse"
    /\ Len(fnIn.res.results) = 1
    /\ fnIn.res.results[1].toolCalls = <<ToolCall(TRUE, VendorItems), ToolCall(FALSE, EmptyVendor)>>
    /\ fnIn.res.results[1].output = TextOutput(TextFenced)
    /\ ~fnOut.ok

\* the extracted fields of the record have been written
HasExtractedFields(rec) ==
    /\ rec.fileDisplayName # Undef
    /\ rec.merchantName # Undef
    /\ rec.merchantAddress # Undef
    /\ rec.merchantContact # Undef
    /\ rec.transactionDate # Undef
    /\ rec.transactionAmount # Undef
    /\ rec.currency # Undef
    /\ rec.receiptSummary # Undef

\* C28 as stated: in every state of the store a receipt whose status is
\* processed holds the extracted fields that updateReceiptWithExtractedData
\* committed; no other operation makes a receipt processed.
C28_ProcessedHasFields ==
    \A id \in DOMAIN receipts :
        receipts[id].status = "processed" => HasExtractedFields(receipts[id])

\* every key of the line item is absent or a number
AbsentOrNumeric(item) ==
    \A i \in 1..Len(ItemKeys(item)) : ItemKeys(item)[i].t \in {"undef", "num"}

\* C29: a line item with none of the recognized keys is mapped to
\* {name: '', quantity: 1, unitPrice: 0, totalPrice: 0}, and when every key
\* of every line item is absent or a number the normalized record has as
\* many items as the vendor record has line items.
C29_KeylessItemsSurvive ==
    fnOut.fn = "mapGeminiToExpectedFormat" =>
        LET lines == fnIn.geminiData.line_items
        IN /\ \A i \in 1..Len(lines) :
                 lines[i] = NoLineItem =>
                     fnOut.mapped.items[i] = [name |-> Str(<<>>), quantity |-> Num(1),
                                              unitPrice |-> Num(0), totalPrice |-> Num(0)]
           /\ (\A i \in 1..Len(lines) : AbsentOrNumeric(lines[i]))
                 => Len(fnOut.normalized.items) = Len(lines)

C29_Witness ==
    /\ fnOut.fn = "mapGeminiToExpectedFormat"
    /\ fnIn.geminiData.line_items
          = <<[NoLineItem EXCEPT !.qty = Num(0), !.quantity = Num(0)], NoLineItem>>
    /\ Len(fnOut.normalized.items) = 2
    /\ fnOut.normalized.items[2]
          = [name |-> <<>>, quantity |-> Unit, unitPrice |-> 0, totalPrice |-> 0]

\* C30: when the record of its receipt is gone after the lookup of an
\* invocation succeeded and before its commit, the commit fails, the
\* invocation ends in failure without a commit, and the record stays absent:
\* an id that was issued and has no record never has one again.  A step
\* that removes a record removes its file from the storage as well, and
\* leaves the other records as they were.
C30_DeletedStaysDeleted ==
    [][/\ \A j \in Jobs :
            (pc[j] \in {"invoking", "persisting"}
             /\ event[j].receiptId \notin DOMAIN receipts)
                => /\ event[j].receiptId \notin DOMAIN receipts'
                   /\ pc'[j] \in Terminal
                         => /\ pc'[j] = "failed"
                            /\ returned'[j].error # ""
                            /\ commits'[j] = commits[j]
                   /\ (pc[j] = "persisting" /\ pc'[j] # pc[j])
                         => /\ failedAt'[j] = "persist"
                            /\ returned'[j].success = "false"
       /\ \A id \in 1..(nextId - 1) :
            id \notin DOMAIN receipts => id \notin DOMAIN receipts'
       /\ \A id \in DOMAIN receipts \ DOMAIN receipts' :
            /\ receipts[id].fileId \notin storage'
            /\ \A r \in DOMAIN receipts' : receipts'[r] = receipts[r]]_vars

C30_Witness ==
    \E j \in Jobs :
        /\ pc[j] = "failed"
        /\ trace[j] = StageOrder
        /\ failedAt[j] = "persist"
        /\ returned[j] = SaveFailed("Unauthorized: Receipt not found.")
        /\ commits[j] = 0
        /\ nextId = 2
        /\ receipts = <<>>
        /\ storage = {}

====
